---------------------------- MODULE Spec2Model ----------------------------
(***************************************************************************)
(* Clock-level model of the streaming FFT datapath: Stage (radix-2 DIF     *)
(* butterfly), FFT (pipeline composer), DMA (address generator/unpacker),  *)
(* Memory (synchronous read port) and InterleavedFFT (stagger scheduler).  *)
(*                                                                         *)
(* One step of the model is one rising clock edge.  Every clocked process  *)
(* reads the values its signals held before the edge (sc_signal writes     *)
(* become visible in the update phase), and the combinational processes    *)
(* settle in the delta cycles that follow the edge.                        *)
(*                                                                         *)
(* Samples are Gaussian integers.  complex_t holds doubles; on the small   *)
(* integers used here +, - and * of doubles are exact.  get_twiddle is     *)
(* modelled by the exact value of exp(-j*2*pi*k/n) for the angles that are *)
(* multiples of a quarter turn (all angles of a 2- or 4-point transform);  *)
(* the doubles cos(-pi/2) = 6.1e-17 and sin(-pi) = -1.2e-16 computed by    *)
(* the code differ from these by far less than the 1e-9 tolerance.         *)
(***************************************************************************)
EXTENDS Integers, Naturals, Sequences, FiniteSets, TLC

(***************************************************************************)
(* Bounds and configuration of the model.                                  *)
(***************************************************************************)
\* transform sizes for which the pipeline is built
Sizes == {2, 4}
\* longest run of back-to-back blocks the FFT testbench feeds
MaxBlocks == 2
\* the FFT testbench starts no new burst once internal_cnt exceeds this
MaxCycles == 9
\* sample values the FFT testbench drives on in_data
Samples == { [real |-> 1, imag |-> 0], [real |-> 0, imag |-> 1] }

(***************************************************************************)
(* fft_types.h : complex_t                                                 *)
(***************************************************************************)
complex_t(x, y) == [real |-> x, imag |-> y]

\* mutant: the second operand dropped
op_add_first(a, b) == a

\* mutant: a constant added to the sum
op_add_offset(a, b) == complex_t(a.real + b.real + 1, a.imag + b.imag)

op_add(a, b) == complex_t(a.real + b.real, a.imag + b.imag)

\* mutant: the operands exchanged
op_sub_swapped(a, b) == complex_t(b.real - a.real, b.imag - a.imag)

op_sub(a, b) == complex_t(a.real - b.real, a.imag - b.imag)

\* mutant: the product of the imaginary parts added instead of subtracted
op_mul_plus(a, b) == complex_t(a.real * b.real + a.imag * b.imag,
                               a.real * b.imag + a.imag * b.real)

op_mul(a, b) == complex_t(a.real * b.real - a.imag * b.imag,
                          a.real * b.imag + a.imag * b.real)

(***************************************************************************)
(* stage.h : Stage                                                         *)
(***************************************************************************)
\* mutant: the angle taken with the opposite sign, exp(+j*2*pi*k/n)
get_twiddle_conj(k, n) ==
    LET q == ((4 * k) \div n) % 4
    IN  CASE q = 0 -> complex_t(1, 0)
          [] q = 1 -> complex_t(0, 1)
          [] q = 2 -> complex_t(-1, 0)
          [] q = 3 -> complex_t(0, -1)

\* W_n^k = exp(-j*2*pi*k/n), exact for quarter-turn angles
get_twiddle(k, n) ==
    LET q == ((4 * k) \div n) % 4
    IN  CASE q = 0 -> complex_t(1, 0)
          [] q = 1 -> complex_t(0, -1)
          [] q = 2 -> complex_t(-1, 0)
          [] q = 3 -> complex_t(0, 1)

\* std::fill(buf.begin(), buf.end(), complex_t(0,0))
fill_zero(len) == [i \in 0 .. len - 1 |-> complex_t(0, 0)]

\* Stage::Stage : the stage as constructed (signals hold their defaults)
Stage(n, offset) ==
    [ N_stage     |-> n,
      delay_len   |-> n \div 2,
      init_offset |-> offset,
      cnt         |-> 0,
      buf_in      |-> fill_zero(n \div 2),
      buf_out     |-> fill_zero(n \div 2),
      out_data    |-> complex_t(0, 0) ]

\* Stage::process, reset branch
process_rst(s) ==
    [ s EXCEPT !.cnt      = s.init_offset,
               !.out_data = complex_t(0, 0),
               !.buf_in   = fill_zero(s.delay_len),
               !.buf_out  = fill_zero(s.delay_len) ]

\* mutant: sync restarts the counter but leaves the buffers as they are
process_enabled_sync_keeps_buffers(s, sync, input) ==
    LET c  == IF sync THEN s.init_offset ELSE s.cnt
        bi == s.buf_in
        bo == s.buf_out
    IN  IF c < s.delay_len
        THEN [ s EXCEPT !.buf_in   = [bi EXCEPT ![c] = input],
                        !.buf_out  = bo,
                        !.out_data = bo[c],
                        !.cnt      = (c + 1) % s.N_stage ]
        ELSE LET k     == c - s.delay_len
                 val_a == bi[k]
                 val_b == input
                 w     == get_twiddle(k, s.N_stage)
                 sum   == op_add(val_a, val_b)
                 diff  == op_mul(op_sub(val_a, val_b), w)
             IN  [ s EXCEPT !.buf_in   = bi,
                            !.buf_out  = [bo EXCEPT ![k] = diff],
                            !.out_data = sum,
                            !.cnt      = (c + 1) % s.N_stage ]

\* Stage::process, enabled branch
process_enabled(s, sync, input) ==
    LET c  == IF sync THEN s.init_offset ELSE s.cnt
        bi == IF sync THEN fill_zero(s.delay_len) ELSE s.buf_in
        bo == IF sync THEN fill_zero(s.delay_len) ELSE s.buf_out
    IN  IF c < s.delay_len
        THEN [ s EXCEPT !.buf_in   = [bi EXCEPT ![c] = input],
                        !.buf_out  = bo,
                        !.out_data = bo[c],
                        !.cnt      = (c + 1) % s.N_stage ]
        ELSE LET k     == c - s.delay_len
                 val_a == bi[k]
                 val_b == input
                 w     == get_twiddle(k, s.N_stage)
                 sum   == op_add(val_a, val_b)
                 diff  == op_mul(op_sub(val_a, val_b), w)
             IN  [ s EXCEPT !.buf_in   = bi,
                            !.buf_out  = [bo EXCEPT ![k] = diff],
                            !.out_data = sum,
                            !.cnt      = (c + 1) % s.N_stage ]

\* mutant: the stage clocks on every edge outside reset, enabled or not
process_free_running(s, rst_v, enable, sync, input) ==
    IF rst_v THEN process_rst(s) ELSE process_enabled(s, sync, input)

\* Stage::process : one rising clock edge of a stage
process(s, rst_v, enable, sync, input) ==
    IF rst_v THEN process_rst(s)
    ELSE IF enable THEN process_enabled(s, sync, input)
    ELSE s

(***************************************************************************)
(* fft.h : FFT                                                             *)
(***************************************************************************)
RECURSIVE log2_int(_)
\* (int)log2(N) for N >= 1
log2_int(n) == IF n < 2 THEN 0 ELSE 1 + log2_int(n \div 2)

\* N >> i
shr(n, i) == n \div (2 ^ i)

\* mutant: the stage counted with two register cycles (stage.h header comment)
stage_latency_total_plus2(current_N) == (current_N \div 2) + 2

\* one stage's share of total_latency: stage_latency + 1
stage_latency_total(current_N) == (current_N \div 2) + 1

RECURSIVE total_latency(_, _)
\* the constructor's total_latency when its loop reaches stage i
total_latency(n, i) ==
    IF i = 0 THEN 0
    ELSE total_latency(n, i - 1) + stage_latency_total(shr(n, i - 1))

\* mutant: every stage starts at phase 0
stage_offset_zero(n, i) == 0

\* the constructor's offset for stage i
stage_offset(n, i) ==
    LET current_N == shr(n, i)
    IN  (current_N - (total_latency(n, i) % current_N)) % current_N

\* mutant: out_index and out_data driven from the registers even when the
\* output is not valid
comb_logic_unmasked(f, rst_v, enable_v) ==
    IF rst_v
    THEN [ status |-> FALSE, in_index |-> -1, out_index |-> -1,
           out_valid |-> FALSE, out_data |-> complex_t(0, 0) ]
    ELSE [ status    |-> enable_v \/ f.flushing,
           in_index  |-> f.samples_in_cnt,
           out_index |-> f.out_cnt_reg,
           out_valid |-> IF f.latency_cycles > 0
                         THEN f.valid_pipe[f.latency_cycles - 1]
                         ELSE FALSE,
           out_data  |-> f.stages[f.num_stages - 1].out_data ]

\* FFT::comb_logic : the five outputs, from the values the process reads
comb_logic(f, rst_v, enable_v) ==
    IF rst_v
    THEN [ status |-> FALSE, in_index |-> -1, out_index |-> -1,
           out_valid |-> FALSE, out_data |-> complex_t(0, 0) ]
    ELSE LET is_valid == IF f.latency_cycles > 0
                         THEN f.valid_pipe[f.latency_cycles - 1]
                         ELSE FALSE
         IN  [ status    |-> enable_v \/ f.flushing,
               in_index  |-> f.samples_in_cnt,
               out_index |-> IF is_valid THEN f.out_cnt_reg ELSE -1,
               out_valid |-> is_valid,
               out_data  |-> IF is_valid
                             THEN f.stages[f.num_stages - 1].out_data
                             ELSE complex_t(0, 0) ]

\* FFT::FFT : the pipeline as constructed, every signal at its default
FFT(n_points) ==
    LET ns  == log2_int(n_points)
        lat == total_latency(n_points, ns)
    IN  [ N              |-> n_points,
          num_stages     |-> ns,
          latency_cycles |-> lat,
          stages         |-> [i \in 0 .. ns - 1 |->
                                Stage(shr(n_points, i), stage_offset(n_points, i))],
          internal_cnt   |-> 0,
          samples_in_cnt |-> 0,
          out_cnt_reg    |-> 0,
          flushing       |-> FALSE,
          valid_pipe     |-> [i \in 0 .. lat - 1 |-> FALSE],
          outs           |-> [ status |-> FALSE, in_index |-> 0, out_index |-> -1,
                               out_valid |-> FALSE, out_data |-> complex_t(0, 0) ] ]

\* FFT::control_logic : any_valid_in_pipe
any_valid_in_pipe(f) == \E i \in DOMAIN f.valid_pipe : f.valid_pipe[i]

\* mutant: the pipeline clocks only while input is valid (no flush)
internal_enable_input_only(f, valid_in) == valid_in

\* FFT::control_logic : the value written to internal_enable
internal_enable(f, valid_in) == valid_in \/ any_valid_in_pipe(f)

\* mutant: sync at every block start, whether or not samples are in flight
stage_sync_every_block(f, valid_in) == f.samples_in_cnt = 0 /\ valid_in

\* mutant: sync whenever a valid sample meets an empty pipeline, whatever the
\* input position
stage_sync_on_empty(f, valid_in) == valid_in /\ ~any_valid_in_pipe(f)

\* FFT::control_logic : the value written to stage_sync
stage_sync(f, valid_in) ==
    f.samples_in_cnt = 0 /\ valid_in /\ ~any_valid_in_pipe(f)

\* mutant: reset leaves out_cnt_reg one past the last index
seq_logic_rst_past_end(f) ==
    [ f EXCEPT !.internal_cnt   = 0,
               !.samples_in_cnt = 0,
               !.out_cnt_reg    = f.N,
               !.valid_pipe     = [i \in DOMAIN f.valid_pipe |-> FALSE] ]

\* FFT::seq_logic, reset branch (flushing is not written)
seq_logic_rst(f) ==
    [ f EXCEPT !.internal_cnt   = 0,
               !.samples_in_cnt = 0,
               !.out_cnt_reg    = f.N - 1,
               !.valid_pipe     = [i \in DOMAIN f.valid_pipe |-> FALSE] ]

\* mutant: out_cnt_reg advances on every enabled edge
seq_logic_enabled_free_running(f, valid_in) ==
    LET L == f.latency_cycles
        s_in == f.samples_in_cnt
        will_be_valid == IF L > 1 THEN f.valid_pipe[L - 2]
                         ELSE IF L = 1 THEN valid_in ELSE FALSE
    IN  [ f EXCEPT
            !.internal_cnt   = f.internal_cnt + 1,
            !.valid_pipe     = [i \in DOMAIN f.valid_pipe |->
                                  IF i = 0 THEN valid_in ELSE f.valid_pipe[i - 1]],
            !.samples_in_cnt = IF valid_in
                               THEN (IF s_in = f.N - 1 THEN 0 ELSE s_in + 1)
                               ELSE s_in,
            !.flushing       = will_be_valid,
            !.out_cnt_reg    = IF stage_sync(f, valid_in) THEN f.N - 1
                               ELSE (f.out_cnt_reg + 1) % f.N ]

\* FFT::seq_logic, enabled branch
seq_logic_enabled(f, valid_in) ==
    LET L == f.latency_cycles
        s_in == f.samples_in_cnt
        will_be_valid == IF L > 1 THEN f.valid_pipe[L - 2]
                         ELSE IF L = 1 THEN valid_in ELSE FALSE
        cnt_inc == IF will_be_valid THEN (f.out_cnt_reg + 1) % f.N
                   ELSE f.out_cnt_reg
    IN  [ f EXCEPT
            !.internal_cnt   = f.internal_cnt + 1,
            !.valid_pipe     = [i \in DOMAIN f.valid_pipe |->
                                  IF i = 0 THEN valid_in ELSE f.valid_pipe[i - 1]],
            !.samples_in_cnt = IF valid_in
                               THEN (IF s_in = f.N - 1 THEN 0 ELSE s_in + 1)
                               ELSE s_in,
            !.flushing       = will_be_valid,
            !.out_cnt_reg    = IF stage_sync(f, valid_in) THEN f.N - 1 ELSE cnt_inc ]

\* FFT::seq_logic : one rising clock edge of the FFT's own registers
seq_logic(f, rst_v, valid_in) ==
    IF rst_v THEN seq_logic_rst(f)
    ELSE IF internal_enable(f, valid_in) THEN seq_logic_enabled(f, valid_in)
    ELSE f

\* one rising clock edge of the FFT: seq_logic and every Stage::process,
\* each reading the pre-edge value of the signal bound to its input
fft_edge(f, rst_v, valid_in, data_in) ==
    LET en == internal_enable(f, valid_in)
        sy == stage_sync(f, valid_in)
        g  == seq_logic(f, rst_v, valid_in)
    IN  [ g EXCEPT !.stages = [i \in DOMAIN f.stages |->
            process(f.stages[i], rst_v, en, sy,
                    IF i = 0 THEN data_in ELSE f.stages[i - 1].out_data)] ]

\* the signal final_stage_out: the last stage's output register; a pipeline
\* without stages never drives it
final_stage_out(f) ==
    IF f.num_stages > 0 THEN f.stages[f.num_stages - 1].out_data
    ELSE complex_t(0, 0)

\* comb_logic's sensitivity list: internal_cnt, rst, final_stage_out, valid_pipe
comb_triggered(f, g, rst_v, rst_n) ==
    \/ g.internal_cnt # f.internal_cnt
    \/ rst_n # rst_v
    \/ final_stage_out(g) # final_stage_out(f)
    \/ g.valid_pipe # f.valid_pipe

\* the FFT after the delta cycles that follow an edge: comb_logic runs, if
\* triggered, in the first delta, where internal_enable still holds the value
\* control_logic gave it before the edge and rst already holds its new value
fft_settle(f, g, rst_v, rst_n, valid_in) ==
    IF comb_triggered(f, g, rst_v, rst_n)
    THEN [ g EXCEPT !.outs = comb_logic(g, rst_n, internal_enable(f, valid_in)) ]
    ELSE g

\* the FFT across one clock cycle
fft_cycle(f, rst_v, rst_n, valid_in, data_in) ==
    fft_settle(f, fft_edge(f, rst_v, valid_in, data_in), rst_v, rst_n, valid_in)

(***************************************************************************)
(* Machine words.  A word (sc_uint) is the set of its bit positions that   *)
(* are 1, so that range() and to_uint() are computed from the bits.        *)
(***************************************************************************)
\* width of the memory data bus (tb_dma.h, tb_interleaved_fft.h)
DATA_WIDTH == 64
\* width of the address bus, scaled down from 12
ADDR_WIDTH == 4
\* depth of the memory, scaled down from 1024; below 2^ADDR_WIDTH as there
MEM_SIZE == 12

RECURSIVE to_uint(_)
\* sc_uint::to_uint : the number whose 1 bits are at the positions in w
to_uint(w) ==
    IF w = {} THEN 0
    ELSE LET b == CHOOSE x \in w : TRUE
         IN  2 ^ b + to_uint(w \ {b})

\* sc_uint::range(hi, lo) : bits lo..hi of w, moved down to position 0
range(w, hi, lo) == { b - lo : b \in { x \in w : lo <= x /\ x <= hi } }

\* the bits of a number below 2^31
uint_bits(n) == { b \in 0 .. 30 : (n \div (2 ^ b)) % 2 = 1 }

\* Testbench::pack_complex : real part in bits 63..32, imaginary in 31..0
pack_complex(r, i) == { b + 32 : b \in uint_bits(r) } \cup uint_bits(i)

\* mutant: a value past the top of the address space saturates
addr_saturate(a) == IF a >= 2 ^ ADDR_WIDTH THEN 2 ^ ADDR_WIDTH - 1 ELSE a

\* a value written to an sc_uint<ADDR_WIDTH> signal
addr_wrap(a) == a % (2 ^ ADDR_WIDTH)

(***************************************************************************)
(* memory.h : Memory                                                       *)
(***************************************************************************)
\* sc_uint<DATA_WIDTH> mem[MEM_SIZE] as constructed, and after clear()
mem_clear == [a \in 0 .. MEM_SIZE - 1 |-> {}]

\* mutant: an address past the end wraps around into the array
mem_write_wrapping(m, rst_v, we, addr, data) ==
    IF we /\ ~rst_v
    THEN [m EXCEPT ![addr % MEM_SIZE] = data]
    ELSE m

\* Memory::write : the array after the write port's clock edge
mem_write(m, rst_v, we, addr, data) ==
    IF we /\ ~rst_v /\ addr < MEM_SIZE
    THEN [m EXCEPT ![addr] = data]
    ELSE m

\* Memory::read : the word written to one port's data_out at a clock edge
mem_read(m, rst_v, addr) ==
    IF ~rst_v
    THEN (IF addr < MEM_SIZE THEN m[addr] ELSE {})
    ELSE {}

(***************************************************************************)
(* dma.h : DMA                                                             *)
(***************************************************************************)
\* the DMA as constructed: every signal at its default
DMA ==
    [ busy           |-> FALSE,
      mem_addr       |-> 0,
      active         |-> FALSE,
      sample_counter |-> 0,
      read_req       |-> FALSE,
      read_wait      |-> FALSE,
      current_addr   |-> 0 ]

\* mutant: reset leaves the address registers as they are
dma_seq_logic_rst_keeps_addr(d) ==
    [ busy           |-> FALSE,
      mem_addr       |-> d.mem_addr,
      active         |-> FALSE,
      sample_counter |-> 0,
      read_req       |-> FALSE,
      read_wait      |-> FALSE,
      current_addr   |-> d.current_addr ]

\* DMA::seq_logic, reset branch
dma_seq_logic_rst(d) ==
    [ busy           |-> FALSE,
      mem_addr       |-> 0,
      active         |-> FALSE,
      sample_counter |-> 0,
      read_req       |-> FALSE,
      read_wait      |-> FALSE,
      current_addr   |-> 0 ]

\* mutant: start accepted only by a DMA that has not counted a sample since
\* reset
dma_accept_once(d, start_v) == start_v /\ ~d.active /\ d.sample_counter = 0

\* mutant: start accepted whether or not a transfer is active
dma_accept_always(d, start_v) == start_v

\* DMA::seq_logic : the condition of the start branch
dma_accept(d, start_v) == start_v /\ ~d.active

\* mutant: the first address is issued twice (current_addr not advanced)
dma_start_writes_same(d, w, base) ==
    [ w EXCEPT !.active         = TRUE,
               !.busy           = TRUE,
               !.mem_addr       = addr_wrap(base),
               !.current_addr   = addr_wrap(base),
               !.sample_counter = 1,
               !.read_req       = FALSE ]

\* DMA::seq_logic : the writes of the start branch, onto the pending writes w
dma_start_writes(d, w, base) ==
    [ w EXCEPT !.active         = TRUE,
               !.busy           = TRUE,
               !.mem_addr       = addr_wrap(base),
               !.current_addr   = addr_wrap(base + 1),
               !.sample_counter = 1,
               !.read_req       = FALSE ]

\* mutant: busy dropped as soon as the issue loop completes
dma_drained_ignored(d) == TRUE

\* DMA::seq_logic : no read is outstanding
dma_drained(d) == ~d.read_req /\ ~d.read_wait

\* DMA::seq_logic : the writes of the active branch, onto the pending writes w
dma_active_writes(d, w, total) ==
    LET count == d.sample_counter
    IN  IF count < total
        THEN [ w EXCEPT !.mem_addr       = d.current_addr,
                        !.current_addr   = addr_wrap(d.current_addr + 1),
                        !.sample_counter = count + 1 ]
        ELSE IF dma_drained(d)
             THEN [ w EXCEPT !.active = FALSE, !.busy = FALSE ]
             ELSE w

\* DMA::seq_logic : one rising clock edge of the DMA.  Signal reads return
\* the pre-edge values (d); of several writes to a signal the last one wins.
dma_seq_logic(d, rst_v, start_v, base, total) ==
    IF rst_v THEN dma_seq_logic_rst(d)
    ELSE LET accept  == dma_accept(d, start_v)
             w1      == IF accept THEN dma_start_writes(d, d, base) ELSE d
             w2      == IF d.active THEN dma_active_writes(d, w1, total) ELSE w1
             issuing == accept \/ (d.active /\ d.sample_counter < total)
         IN  [ w2 EXCEPT !.read_wait = issuing,
                         !.read_req  = d.read_wait ]

\* mutant: the word unpacked as if the bus were 32 bits wide
dma_unpack_narrow(raw) == complex_t(to_uint(range(raw, 31, 0)), 0)

\* DMA::comb_logic : the unpacked sample
dma_unpack(raw) ==
    IF DATA_WIDTH = 64
    THEN complex_t(to_uint(range(raw, 63, 32)), to_uint(range(raw, 31, 0)))
    ELSE complex_t(to_uint(range(raw, 31, 0)), 0)

\* DMA::comb_logic : the value written to fft_valid
dma_fft_valid(d) == d.read_req

\* mutant: the unpacked word driven whether or not read_req is set
dma_fft_data_always(d, raw) == dma_unpack(raw)

\* DMA::comb_logic : the value written to fft_data
dma_fft_data(d, raw) ==
    IF d.read_req THEN dma_unpack(raw) ELSE complex_t(0, 0)

(***************************************************************************)
(* interleaved_fft.h : InterleavedFFT, the stagger scheduler               *)
(***************************************************************************)
\* InterleavedFFT's NUM_CORES
NUM_CORES == 2
Cores == 0 .. NUM_CORES - 1

\* mutant: a start restarts the sequence even while staggering
sched_accept_always(is_active, start_v) == start_v

\* InterleavedFFT::control_logic : the condition of the start branch
sched_accept(is_active, start_v) == start_v /\ ~is_active

\* mutant: the pulse held from the core's slot onwards
sched_pulse_level(cnt, i, h) == cnt >= i * h

\* InterleavedFFT::control_logic : the value written to dma_starts[i]
sched_pulse(cnt, i, h) == cnt = i * h

\* mutant: the sequence ends one edge later
stagger_done_late(cnt, nc, h) == cnt > nc * h + 3

\* InterleavedFFT::control_logic : the condition that clears active_stagger
stagger_done(cnt, nc, h) == cnt > nc * h + 2

\* InterleavedFFT::control_logic : one rising clock edge of the scheduler;
\* s = [active_stagger, stagger_counter, dma_starts], h = hop; num_cores is
\* the size of the dma_starts vector
control_logic(s, rst_v, start_v, h) ==
    LET cores     == DOMAIN s.dma_starts
        num_cores == Cardinality(cores)
    IN  IF rst_v
        THEN [ active_stagger  |-> FALSE,
               stagger_counter |-> 0,
               dma_starts      |-> [i \in cores |-> FALSE] ]
        ELSE LET accept    == sched_accept(s.active_stagger, start_v)
                 is_active == s.active_stagger \/ accept
                 cnt       == IF accept THEN 0 ELSE s.stagger_counter
             IN  IF is_active
                 THEN [ active_stagger  |-> ~stagger_done(cnt, num_cores, h),
                        stagger_counter |-> cnt + 1,
                        dma_starts      |-> [i \in cores |-> sched_pulse(cnt, i, h)] ]
                 ELSE [ s EXCEPT !.dma_starts = [i \in cores |-> FALSE] ]

(***************************************************************************)
(* State                                                                   *)
(***************************************************************************)
VARIABLES
    rst,             \* the reset signal
    start,           \* InterleavedFFT's global start signal
    base_addrs,      \* per core: the base_addr signal
    num_samples,     \* per core: the num_samples signal
    hop,             \* InterleavedFFT::hop (HOP_SIZE), fixed at construction
    active_stagger,  \* the scheduler's Staggering flag
    stagger_counter, \* the scheduler's counter
    dma_starts,      \* per core: the signal bound to the DMA's start
    dma,             \* per core: the DMA's registers
    mem,             \* Memory::mem
    mem_data,        \* per port: the memory's data_out signal
    fft_in_valids,   \* per core: the signal bound to the FFT's in_valid
    fft_in_data,     \* per core: the signal bound to the FFT's in_data
    fft,             \* per core: the FFT (registers, stages, outputs)
    fed,             \* monitor: samples ingested since the last stage_sync
    got,             \* monitor, per core: valid outputs seen in this burst
    since,           \* monitor: enabled edges since the last stage_sync edge
    xfer,            \* monitor: the DMA transfer in progress
    run,             \* monitor: the scheduler's current stagger sequence
    sys,             \* monitor: the whole design's current and previous run
    strm,            \* monitor: the in_valid history of a free-running stream
    lin,             \* three pipelines fed x, y and a*x + b*y in lock step
    build,           \* monitor: an FFT built for an arbitrary size
    memtb,           \* the memory testbench's port signals and last read
    twin,            \* a second copy of the whole design, run alongside
    stag,            \* monitor: a stagger sequence of a scheduler of any width
    tb_start         \* the start signal of a DMA clocked beside the scheduler

tbVars    == << rst, start, base_addrs, num_samples >>
schedVars == << hop, active_stagger, stagger_counter >>
dmaVars   == << dma, mem, mem_data >>
fftVars   == << fft_in_valids, fft_in_data, fft >>
monVars   == << fed, got, since, xfer, run, sys >>
hypVars   == << build, memtb, twin, stag, tb_start >>
obsVars   == << strm, lin, build, memtb, twin, stag, tb_start >>

vars == << rst, start, base_addrs, num_samples, hop, active_stagger,
           stagger_counter, dma_starts, dma, mem, mem_data, fft_in_valids,
           fft_in_data, fft, fed, got, since, xfer, run, sys, strm, lin,
           build, memtb, twin, stag, tb_start >>

\* an FFT after the initialization phase, comb_logic having seen rst
fft_init(n, rst_v) == [ FFT(n) EXCEPT !.outs = comb_logic(FFT(n), rst_v, FALSE) ]

\* main.cpp's HOP_SIZE
HOP_SIZE == 1

\* the monitors before anything has been observed
xfer_idle == [ on |-> FALSE, base |-> 0, n |-> 0, t |-> 0, k |-> 0,
               steady |-> FALSE, done |-> FALSE,
               prev_start |-> FALSE, prev_active |-> FALSE ]
run_idle == [ on |-> FALSE, t |-> 0, pulses |-> [c \in Cores |-> << >>],
              prev_start |-> FALSE, prev_active |-> FALSE ]
sys_idle == [ on |-> FALSE, clean |-> FALSE, steady |-> FALSE,
              cfg |-> [c \in Cores |-> 0],
              prev_ok |-> FALSE, prev_cfg |-> [c \in Cores |-> 0],
              prev_got |-> [c \in Cores |-> << >>] ]
strm_idle == [ hist |-> << >>, pos |-> << >>, nin |-> 0, nout |-> 0, prev |-> -1 ]
lin_idle == [ on |-> FALSE ]
build_idle == [ since |-> 0, fault |-> FALSE ]
memtb_idle == [ wrt_en |-> FALSE, waddr |-> 0, data_in |-> {}, raddr |-> 0,
                seen |-> FALSE, r_addr |-> 0, r_old |-> {}, r_new |-> {},
                w_dropped |-> FALSE ]
twin_idle == [ on |-> FALSE ]
stag_idle == [ on |-> FALSE, t |-> 0, pulsed |-> {}, begun |-> {}, dropped |-> {} ]

\* every module as constructed, for transform size n, the scheduler with nc
\* start outputs
ConstructedCores(n, nc) ==
    /\ start = FALSE
    /\ base_addrs = [c \in Cores |-> 0]
    /\ num_samples = [c \in Cores |-> 0]
    /\ active_stagger = FALSE
    /\ stagger_counter = 0
    /\ dma_starts = [c \in 0 .. nc - 1 |-> FALSE]
    /\ dma = [c \in Cores |-> DMA]
    /\ mem = mem_clear
    /\ mem_data = [c \in Cores |-> {}]
    /\ fft_in_valids = [c \in Cores |-> FALSE]
    /\ fft_in_data = [c \in Cores |-> complex_t(0, 0)]
    /\ fft = [c \in Cores |-> fft_init(n, rst)]
    /\ fed = << >>
    /\ got = [c \in Cores |-> << >>]
    /\ since = 0
    /\ xfer = xfer_idle
    /\ run = run_idle
    /\ sys = sys_idle
    /\ strm = strm_idle
    /\ lin = lin_idle
    /\ build = build_idle
    /\ memtb = memtb_idle
    /\ twin = twin_idle
    /\ stag = stag_idle
    /\ tb_start = FALSE

\* every module as constructed by main.cpp, for transform size n
Constructed(n) == ConstructedCores(n, NUM_CORES)

(***************************************************************************)
(* tb_fft.cpp : a standalone FFT (core 0) fed blocks of N samples          *)
(***************************************************************************)
InitFFT ==
    /\ rst \in BOOLEAN
    /\ hop = HOP_SIZE
    /\ \E n \in Sizes : Constructed(n)

\* FFT_TB::control and the clock edge it waits for: the FFT takes the edge,
\* the monitors record what was ingested and what came out, and the testbench
\* writes the next values of rst, in_valid and in_data.  Blocks are N valid
\* samples without a gap; a burst is at most MaxBlocks back-to-back blocks and
\* the next burst starts only after the pipeline has drained.
TickFFT ==
    LET f    == fft[0]
        v    == fft_in_valids[0]
        d    == fft_in_data[0]
        e    == fft_edge(f, rst, v, d)
        sync == ~rst /\ stage_sync(f, v)
        en   == ~rst /\ internal_enable(f, v)
        fed1 == IF rst THEN << >>
                ELSE IF v THEN Append(IF sync THEN << >> ELSE fed, d)
                ELSE fed
        midblock == Len(fed1) % f.N # 0
        more     == ~rst /\ v /\ Len(fed1) < MaxBlocks * f.N
        fresh    == ~any_valid_in_pipe(e) /\ e.internal_cnt <= MaxCycles
    IN  \E nrst \in BOOLEAN, nv \in BOOLEAN, nd \in Samples \cup {d} :
          LET g == fft_settle(f, e, rst, nrst, v)
          IN  /\ nv => (midblock \/ more \/ fresh)
              /\ (midblock /\ ~nrst) => nv
              /\ IF nv THEN nd \in Samples ELSE nd = d
              /\ fft' = [fft EXCEPT ![0] = g]
              /\ fed' = fed1
              /\ got' = [got EXCEPT ![0] =
                        IF rst \/ sync THEN << >>
                        ELSE IF g.outs.out_valid
                             THEN Append(got[0], [index |-> g.outs.out_index,
                                                  data  |-> g.outs.out_data])
                             ELSE got[0]]
              /\ since' = IF rst THEN 0
                          ELSE IF sync THEN 1
                          ELSE IF en /\ since > 0 THEN since + 1
                          ELSE since
              /\ rst' = nrst
              /\ fft_in_valids' = [fft_in_valids EXCEPT ![0] = nv]
              /\ fft_in_data' = [fft_in_data EXCEPT ![0] = nd]
              /\ UNCHANGED << start, base_addrs, num_samples, schedVars,
                              dma_starts, dmaVars, xfer, run, sys, obsVars >>

NextFFT == TickFFT

SpecFFT == InitFFT /\ [][NextFFT]_vars

(***************************************************************************)
(* A standalone FFT (core 0) driven with an arbitrary in_valid pattern:    *)
(* gaps, partial blocks and streams longer than N                          *)
(***************************************************************************)
\* most valid samples driven between two resets
MaxStream == 6

InitStream ==
    /\ rst \in BOOLEAN
    /\ hop = HOP_SIZE
    /\ \E n \in Sizes : Constructed(n)

\* keep the newest len entries of a history
newest(h, len) == IF Len(h) > len THEN SubSeq(h, Len(h) - len + 1, Len(h)) ELSE h

\* the stream monitor across one clock edge that found the FFT as f with
\* in_valid = v and left it as g
strm_next(f, g, v) ==
    IF rst THEN strm_idle
    ELSE [ hist |-> newest(Append(strm.hist, v), f.latency_cycles),
           pos  |-> newest(Append(strm.pos, IF v THEN f.samples_in_cnt ELSE -1),
                           f.latency_cycles),
           nin  |-> strm.nin + (IF v THEN 1 ELSE 0),
           nout |-> strm.nout + (IF g.outs.out_valid THEN 1 ELSE 0),
           prev |-> IF stage_sync(f, v) THEN -1
                    ELSE IF f.outs.out_valid THEN f.outs.out_index
                    ELSE strm.prev ]

\* one clock edge of the FFT; the environment writes any next rst, in_valid
\* and in_data
TickStream ==
    LET f == fft[0]
        v == fft_in_valids[0]
        d == fft_in_data[0]
    IN  \E nrst \in BOOLEAN, nv \in BOOLEAN, nd \in Samples \cup {d} :
          LET g == fft_cycle(f, rst, nrst, v, d)
              m == strm_next(f, g, v)
          IN  /\ nv => (~nrst /\ m.nin < MaxStream)
              /\ IF nv THEN nd \in Samples ELSE nd = d
              /\ fft' = [fft EXCEPT ![0] = g]
              /\ strm' = m
              /\ rst' = nrst
              /\ fft_in_valids' = [fft_in_valids EXCEPT ![0] = nv]
              /\ fft_in_data' = [fft_in_data EXCEPT ![0] = nd]
              /\ UNCHANGED << start, base_addrs, num_samples, schedVars,
                              dma_starts, dmaVars, monVars, lin, hypVars >>

NextStream == TickStream

SpecStream == InitStream /\ [][NextStream]_vars

(***************************************************************************)
(* tb_fft.cpp : three standalone FFTs clocked together, fed the blocks x,  *)
(* y and a*x + b*y                                                         *)
(***************************************************************************)
\* every block of n samples over the set vals, as a sequence
Blocks(n, vals) == [1 .. n -> vals]

\* sample values of the first block: the impulse and DC test vectors are
\* among the blocks over them
LinValsX == { [real |-> 0, imag |-> 0], [real |-> 1, imag |-> 0] }
\* scalars of the linear combination
Scalars == {-1, 2, 3}

\* a*p + b*q on samples, with integer scalars
lin_comb(a, p, b, q) ==
    [real |-> a * p.real + b * q.real, imag |-> a * p.imag + b * q.imag]

\* FFT_TB::control, TEST CASE 1 and TEST CASE 2
Impulse(n) == [i \in 1 .. n |-> [real |-> (IF i = 1 THEN 1 ELSE 0), imag |-> 0]]
DCBlock(n) == [i \in 1 .. n |-> [real |-> 1, imag |-> 0]]

InitLin ==
    /\ rst \in BOOLEAN
    /\ hop = HOP_SIZE
    /\ Constructed(4)

\* the three pipelines have been given their blocks and have drained
LinDone ==
    /\ lin.on
    /\ lin.k = lin.N
    /\ ~lin.v
    /\ ~any_valid_in_pipe(lin.fx)

\* the testbench picks the blocks.  The first run builds the three FFTs (they
\* see the current rst); a second run feeds a test vector to the drained
\* pipelines of the first.
LinStart ==
    /\ \/ /\ ~lin.on
          /\ \E n \in Sizes, a \in Scalars, b \in Scalars :
             \E x \in Blocks(n, LinValsX), y \in Blocks(n, Samples) :
               lin' = [ on |-> TRUE, N |-> n, runs |-> 1,
                        x |-> x, y |-> y, a |-> a, b |-> b,
                        k |-> 0, v |-> FALSE,
                        dx |-> complex_t(0, 0), dy |-> complex_t(0, 0),
                        dz |-> complex_t(0, 0),
                        fx |-> fft_init(n, rst), fy |-> fft_init(n, rst),
                        fz |-> fft_init(n, rst),
                        ox |-> << >>, oy |-> << >>, oz |-> << >> ]
       \/ /\ LinDone
          /\ lin.runs = 1
          /\ \E x \in {Impulse(lin.N), DCBlock(lin.N)} :
               lin' = [ lin EXCEPT !.runs = 2, !.x = x, !.k = 0,
                                   !.ox = << >>, !.oy = << >>, !.oz = << >> ]
    /\ UNCHANGED << tbVars, schedVars, dma_starts, dmaVars, fftVars, monVars,
                    strm, hypVars >>

\* the outputs seen so far, with this edge's output if it is valid
lin_seen(o, g) ==
    IF g.outs.out_valid
    THEN Append(o, [index |-> g.outs.out_index, data |-> g.outs.out_data])
    ELSE o

\* one clock edge of the three FFTs; the testbench releases rst and writes
\* the next sample of each block, N samples without a gap
TickLin ==
    /\ lin.on
    /\ ~LinDone
    /\ LET gx == fft_cycle(lin.fx, rst, FALSE, lin.v, lin.dx)
           gy == fft_cycle(lin.fy, rst, FALSE, lin.v, lin.dy)
           gz == fft_cycle(lin.fz, rst, FALSE, lin.v, lin.dz)
           nv == lin.k < lin.N
           i  == lin.k + 1
       IN  lin' = [ lin EXCEPT
                      !.fx = gx, !.fy = gy, !.fz = gz,
                      !.ox = lin_seen(lin.ox, gx),
                      !.oy = lin_seen(lin.oy, gy),
                      !.oz = lin_seen(lin.oz, gz),
                      !.v  = nv,
                      !.k  = IF nv THEN i ELSE lin.k,
                      !.dx = IF nv THEN lin.x[i] ELSE lin.dx,
                      !.dy = IF nv THEN lin.y[i] ELSE lin.dy,
                      !.dz = IF nv THEN lin_comb(lin.a, lin.x[i], lin.b, lin.y[i])
                             ELSE lin.dz ]
    /\ rst' = FALSE
    /\ UNCHANGED << start, base_addrs, num_samples, schedVars, dma_starts,
                    dmaVars, fftVars, monVars, strm, hypVars >>

NextLin == LinStart \/ TickLin

SpecLin == InitLin /\ [][NextLin]_vars

(***************************************************************************)
(* tb_dma.cpp : a standalone DMA (core 0) reading the memory               *)
(***************************************************************************)
\* base addresses the testbench configures (1 as in tb_dma.cpp; 10 runs
\* past MEM_SIZE and 14 past the end of the address space)
BaseAddrs == {1, 10, 14}
\* transfer lengths the testbench configures
NumSamples == {0, 1, 3}
\* memory images the testbench loads: word i = (i+5)<<32 | 2i (tb_dma.cpp)
\* and word i = i<<32 (tb_interleaved_fft.h)
MemImages ==
    { [a \in 0 .. MEM_SIZE - 1 |-> pack_complex(a + 5, 2 * a)],
      [a \in 0 .. MEM_SIZE - 1 |-> pack_complex(a, 0)] }

InitDMA ==
    /\ rst \in BOOLEAN
    /\ hop = HOP_SIZE
    /\ Constructed(4)

\* nothing is in flight anywhere in the design
Quiescent ==
    /\ ~active_stagger
    /\ \A c \in Cores :
          /\ ~dma_starts[c]
          /\ ~dma[c].active
          /\ ~fft_in_valids[c]
          /\ ~any_valid_in_pipe(fft[c])

\* Testbench::stimuli, memory backdoor: mem_inst->mem[i] = val, done while
\* reset is released and the design is idle; a run observed over the old
\* contents is no longer comparable
Preload ==
    /\ ~rst
    /\ mem = mem_clear
    /\ Quiescent
    /\ \E image \in MemImages : mem' = image
    /\ sys' = sys_idle
    /\ UNCHANGED << tbVars, schedVars, dma_starts, dma, mem_data, fftVars,
                    fed, got, since, xfer, run, obsVars >>

\* the transfer monitor across one clock edge: d, d1 the DMA before and
\* after the edge, st, b, n the start, base_addr and num_samples it sampled
xfer_next(d, d1, st, b, n, reset) ==
    LET seen == [ prev_start |-> st /\ ~reset, prev_active |-> d.active /\ ~reset ]
        body ==
          IF reset THEN [ xfer_idle EXCEPT !.done = FALSE ]
          ELSE IF st /\ ~d.active
          THEN [ xfer EXCEPT !.on = TRUE, !.base = b, !.n = n, !.t = 0, !.k = 0,
                             !.steady = TRUE, !.done = FALSE ]
          ELSE IF xfer.on
          THEN LET steady1 == xfer.steady /\ n = xfer.n
               IN  [ xfer EXCEPT
                       !.on     = d1.busy,
                       !.done   = ~d1.busy,
                       !.steady = steady1,
                       !.t      = IF steady1 THEN xfer.t + 1 ELSE 0,
                       !.k      = xfer.k + (IF d1.read_req THEN 1 ELSE 0) ]
          ELSE xfer
    IN  [ body EXCEPT !.prev_start = seen.prev_start,
                      !.prev_active = seen.prev_active ]

\* one clock edge of the DMA testbench: DMA::seq_logic and Memory::read take
\* the edge, Memory::clear follows rst, DMA::comb_logic settles, and the
\* testbench writes the next start, rst, base_addr and num_samples
TickDMA ==
    LET d   == dma[0]
        d1  == dma_seq_logic(d, rst, dma_starts[0], base_addrs[0], num_samples[0])
        md1 == mem_read(mem, rst, d.mem_addr)
    IN  \E nrst \in BOOLEAN, nst \in BOOLEAN, nb \in BaseAddrs, nn \in NumSamples :
          /\ dma' = [dma EXCEPT ![0] = d1]
          /\ mem_data' = [mem_data EXCEPT ![0] = md1]
          /\ mem' = IF rst \/ nrst THEN mem_clear ELSE mem
          /\ fft_in_valids' = [fft_in_valids EXCEPT ![0] = dma_fft_valid(d1)]
          /\ fft_in_data' = [fft_in_data EXCEPT ![0] = dma_fft_data(d1, md1)]
          /\ xfer' = xfer_next(d, d1, dma_starts[0], base_addrs[0],
                               num_samples[0], rst \/ nrst)
          /\ rst' = nrst
          /\ dma_starts' = [dma_starts EXCEPT ![0] = nst]
          /\ (nb # base_addrs[0]) => nst
          /\ base_addrs' = [base_addrs EXCEPT ![0] = nb]
          /\ num_samples' = [num_samples EXCEPT ![0] = nn]
          /\ UNCHANGED << start, schedVars, fft, fed, got, since, run, sys, obsVars >>

NextDMA == TickDMA \/ Preload

SpecDMA == InitDMA /\ [][NextDMA]_vars

(***************************************************************************)
(* The stagger scheduler of InterleavedFFT on its own                      *)
(***************************************************************************)
\* values of the HOP_SIZE template parameter
HopSizes == 0 .. 3

Sched == [ active_stagger  |-> active_stagger,
           stagger_counter |-> stagger_counter,
           dma_starts      |-> dma_starts ]

InitSched ==
    /\ rst \in BOOLEAN
    /\ hop \in HopSizes
    /\ Constructed(4)

\* the stagger monitor across one clock edge: s1 the scheduler after it
run_next(s1) ==
    LET seen == [ prev_start |-> start /\ ~rst, prev_active |-> active_stagger /\ ~rst ]
        mark(t) == [c \in Cores |-> IF s1.dma_starts[c] THEN << t >> ELSE << >>]
        body ==
          IF rst THEN run_idle
          ELSE IF start /\ ~active_stagger
          THEN [ run EXCEPT !.on = TRUE, !.t = 0, !.pulses = mark(0) ]
          ELSE IF run.on
          THEN [ run EXCEPT
                   !.on     = s1.active_stagger,
                   !.t      = run.t + 1,
                   !.pulses = [c \in Cores |-> run.pulses[c] \o mark(run.t + 1)[c]] ]
          ELSE run
    IN  [ body EXCEPT !.prev_start = seen.prev_start,
                      !.prev_active = seen.prev_active ]

\* one clock edge of InterleavedFFT::control_logic; the environment writes
\* the next start and rst
TickSched ==
    LET s1 == control_logic(Sched, rst, start, hop)
    IN  \E nrst \in BOOLEAN, nst \in BOOLEAN :
          /\ active_stagger' = s1.active_stagger
          /\ stagger_counter' = s1.stagger_counter
          /\ dma_starts' = s1.dma_starts
          /\ run' = run_next(s1)
          /\ rst' = nrst
          /\ start' = nst
          /\ UNCHANGED << base_addrs, num_samples, hop, dmaVars, fftVars,
                          fed, got, since, xfer, sys, obsVars >>

NextSched == TickSched

SpecSched == InitSched /\ [][NextSched]_vars

(***************************************************************************)
(* tb_interleaved_fft.h : scheduler, DMAs, FFT cores and the memory        *)
(***************************************************************************)
\* the per-core base addresses the testbench configures
BaseConfigs ==
    { [c \in Cores |-> 4 * c], [c \in Cores |-> 4], [c \in Cores |-> 8 - 7 * c] }

\* the transform size of every core, as num_samples is configured
N_SIZE == 4

InitSys ==
    /\ rst \in BOOLEAN
    /\ hop = HOP_SIZE
    /\ Constructed(N_SIZE)

\* the run monitor across one clock edge; g the FFT cores after the edge
sys_next(reset) ==
    IF reset THEN sys_idle
    ELSE IF start /\ ~active_stagger
    THEN [ on       |-> TRUE,
           clean    |-> Quiescent,
           steady   |-> num_samples = [c \in Cores |-> N_SIZE],
           cfg      |-> base_addrs,
           prev_ok  |-> sys.on /\ sys.clean /\ sys.steady /\ Quiescent,
           prev_cfg |-> sys.cfg,
           prev_got |-> got ]
    ELSE IF sys.on
    THEN [ sys EXCEPT !.steady = /\ sys.steady
                                 /\ base_addrs = sys.cfg
                                 /\ num_samples = [c \in Cores |-> N_SIZE] ]
    ELSE sys

\* one clock edge of the whole design: InterleavedFFT::control_logic, every
\* DMA, the memory's read ports and every FFT core take the edge, the
\* combinational methods settle, and the testbench writes the next start,
\* rst and configuration
TickSys ==
    LET s1  == control_logic(Sched, rst, start, hop)
        d1  == [c \in Cores |->
                  dma_seq_logic(dma[c], rst, dma_starts[c], base_addrs[c], num_samples[c])]
        md1 == [c \in Cores |-> mem_read(mem, rst, dma[c].mem_addr)]
        may == \A c \in Cores : fft[c].internal_cnt <= MaxCycles
    IN  \E nrst \in BOOLEAN, nst \in BOOLEAN, nb \in BaseConfigs \cup {base_addrs} :
          LET g == [c \in Cores |->
                      fft_cycle(fft[c], rst, nrst, fft_in_valids[c], fft_in_data[c])]
              accept == ~rst /\ start /\ ~active_stagger
          IN  /\ nrst => rst
              /\ nst => (may /\ ~nrst /\ nb \in BaseConfigs)
              /\ (nb # base_addrs) => nst
              /\ active_stagger' = s1.active_stagger
              /\ stagger_counter' = s1.stagger_counter
              /\ dma_starts' = s1.dma_starts
              /\ dma' = d1
              /\ mem_data' = md1
              /\ mem' = IF rst \/ nrst THEN mem_clear ELSE mem
              /\ fft_in_valids' = [c \in Cores |-> dma_fft_valid(d1[c])]
              /\ fft_in_data' = [c \in Cores |-> dma_fft_data(d1[c], md1[c])]
              /\ fft' = g
              /\ got' = [c \in Cores |->
                          IF rst \/ accept THEN << >>
                          ELSE IF g[c].outs.out_valid
                               THEN Append(got[c], [index |-> g[c].outs.out_index,
                                                    data  |-> g[c].outs.out_data])
                               ELSE got[c]]
              /\ sys' = sys_next(rst \/ nrst)
              /\ rst' = nrst
              /\ start' = nst
              /\ base_addrs' = nb
              /\ num_samples' = IF nst THEN [c \in Cores |-> N_SIZE] ELSE num_samples
              /\ UNCHANGED << hop, fed, since, xfer, run, obsVars >>

NextSys == TickSys \/ Preload

SpecSys == InitSys /\ [][NextSys]_vars

(***************************************************************************)
(* Reference transform, independent of the pipeline's arithmetic            *)
(***************************************************************************)
\* z * exp(-j*pi/2)^q
RefRot(z, q) ==
    CASE q % 4 = 0 -> z
      [] q % 4 = 1 -> [real |-> z.imag, imag |-> -z.real]
      [] q % 4 = 2 -> [real |-> -z.real, imag |-> -z.imag]
      [] q % 4 = 3 -> [real |-> -z.imag, imag |-> z.real]

RECURSIVE RefSum(_, _, _)
\* sum over n < m of x[n+1] * exp(-j*2*pi*n*k/Len(x)), Len(x) in {1, 2, 4}
RefSum(x, k, m) ==
    IF m = 0 THEN [real |-> 0, imag |-> 0]
    ELSE LET t == RefRot(x[m], (4 \div Len(x)) * (m - 1) * k)
             r == RefSum(x, k, m - 1)
         IN  [real |-> r.real + t.real, imag |-> r.imag + t.imag]

\* bin k of the discrete Fourier transform of x
RefDFT(x, k) == RefSum(x, k, Len(x))

RECURSIVE BitRev(_, _)
\* j with its low `bits` bits reversed
BitRev(j, bits) ==
    IF bits = 0 THEN 0
    ELSE (j % 2) * (2 ^ (bits - 1)) + BitRev(j \div 2, bits - 1)

\* the standalone FFT and its input signals
F0 == fft[0]
Drained0 == ~fft_in_valids[0] /\ ~any_valid_in_pipe(F0)

\* block b (0-based) of the samples ingested in this burst
FedBlock(b) == SubSeq(fed, b * F0.N + 1, (b + 1) * F0.N)

\* the k-th output of this burst is output k-1-b*N of block b and carries
\* the bit-reversed bin of that block
OutputIsBin(k, b) ==
    /\ Len(fed) >= (b + 1) * F0.N
    /\ got[0][k].index = k - 1 - b * F0.N
    /\ got[0][k].data = RefDFT(FedBlock(b), BitRev(k - 1 - b * F0.N, F0.num_stages))

(***************************************************************************)
(* C1: a block of N consecutive valid samples fed to a reset or drained    *)
(* pipeline yields exactly N valid outputs, and the output with out_index  *)
(* j is bin bitrev(j) of the block's DFT.                                   *)
(***************************************************************************)
C1_BitReversedDFT ==
    /\ \A k \in 1 .. Len(got[0]) : k <= F0.N => OutputIsBin(k, 0)
    /\ (Len(fed) = F0.N /\ Drained0) => Len(got[0]) = F0.N

\* a 4-point block fed after an earlier burst has drained, all four bins out
C1_Witness ==
    /\ F0.N = 4 /\ Len(fed) = 4 /\ Len(got[0]) = 4 /\ Drained0
    /\ F0.internal_cnt = 18
    /\ got[0][2].data # got[0][3].data
    /\ got[0][3].data # got[0][4].data

C3_BlockIsolation ==
    /\ \A k \in 1 .. Len(got[0]) :
          (F0.N < k /\ k <= 2 * F0.N) => OutputIsBin(k, 1)
    /\ (Len(fed) = 2 * F0.N /\ Drained0) => Len(got[0]) = 2 * F0.N

\* two different 4-point blocks back to back, all eight outputs out
C3_Witness ==
    /\ F0.N = 4 /\ Len(fed) = 8 /\ Len(got[0]) = 8 /\ Drained0
    /\ FedBlock(0) # FedBlock(1)
    /\ got[0][6].data # got[0][2].data

(***************************************************************************)
(* C8: after any clock edge with rst asserted every state element of the   *)
(* FFT (flushing included) holds its reset value, and an idle FFT reports   *)
(* status = false and out_valid = false once rst is released.               *)
(***************************************************************************)
ResetStage(s) ==
    /\ s.cnt = s.init_offset
    /\ s.out_data = [real |-> 0, imag |-> 0]
    /\ \A i \in DOMAIN s.buf_in : s.buf_in[i] = [real |-> 0, imag |-> 0]
    /\ \A i \in DOMAIN s.buf_out : s.buf_out[i] = [real |-> 0, imag |-> 0]

ResetRegs(f) ==
    /\ f.internal_cnt = 0
    /\ f.samples_in_cnt = 0
    /\ f.out_cnt_reg = f.N - 1
    /\ \A i \in DOMAIN f.valid_pipe : ~f.valid_pipe[i]
    /\ \A i \in DOMAIN f.stages : ResetStage(f.stages[i])

C8_ResetAll ==
    [][ /\ rst => (ResetRegs(fft'[0]) /\ ~fft'[0].flushing)
        /\ (rst /\ ~rst' /\ ~fft_in_valids[0]) =>
              (~fft'[0].outs.status /\ ~fft'[0].outs.out_valid) ]_vars

\* what the code does restore: everything but flushing
C8_ResetAllButFlushing ==
    [][ /\ rst => ResetRegs(fft'[0])
        /\ (rst /\ ~rst') => ~fft'[0].outs.out_valid ]_vars

(***************************************************************************)
(* Claims about the DMA (checked under SpecDMA)                            *)
(***************************************************************************)
D0 == dma[0]

\* the Sample a 64-bit word encodes: upper half real, lower half imaginary
RefUnpack(w) ==
    [ real |-> to_uint({ b - 32 : b \in { c \in w : c >= 32 } }),
      imag |-> to_uint({ b \in w : b < 32 }) ]

\* C4: DMA transfer correctness.  For a start accepted by an idle DMA with
\* num_samples = n >= 1 held constant and memory contents constant, t edges
\* after the accepting edge: fft_valid is high exactly for 1 <= t <= n (n
\* consecutive cycles, n pulses in all), the sample delivered at t is the
\* unpacking of the word stored at base_addr + t - 1, and busy stays high
\* through t = n + 1 and falls at t = n + 2, after the n-th sample.
C4_DmaTransfer ==
    /\ (xfer.on /\ xfer.steady /\ xfer.n >= 1) =>
          /\ D0.busy
          /\ xfer.t <= xfer.n + 1
          /\ fft_in_valids[0] <=> (1 <= xfer.t /\ xfer.t <= xfer.n)
          /\ xfer.k = (IF xfer.t <= xfer.n THEN xfer.t ELSE xfer.n)
          /\ (fft_in_valids[0] /\ xfer.base + xfer.t - 1 < MEM_SIZE) =>
                fft_in_data[0] = RefUnpack(mem[xfer.base + xfer.t - 1])
    /\ (xfer.done /\ xfer.steady /\ xfer.n >= 1) =>
          /\ ~D0.busy
          /\ xfer.t = xfer.n + 2
          /\ xfer.k = xfer.n
          /\ ~fft_in_valids[0]

\* the third of three samples of a transfer from base 1 over the tb_dma
\* image: address 3 holds (3+5)<<32 | 6
C4_Witness ==
    /\ xfer.on /\ xfer.steady /\ xfer.n = 3 /\ xfer.base = 1 /\ xfer.t = 3
    /\ mem[3] = pack_complex(8, 6)
    /\ fft_in_valids[0]
    /\ fft_in_data[0] = [real |-> 8, imag |-> 6]
    /\ D0.busy

\* C7: DMA busy invariant.  busy equals active; a read outstanding
\* (read_wait or read_req, hence fft_valid) implies busy; and busy is
\* cleared outside reset only on an edge where sample_counter has reached
\* num_samples and read_wait and read_req are both already false.
C7_BusyInvariant ==
    /\ [](/\ D0.busy = D0.active
          /\ (D0.read_wait \/ D0.read_req) => D0.busy
          /\ fft_in_valids[0] => D0.busy)
    /\ [][(D0.busy /\ ~dma'[0].busy /\ ~rst) =>
             /\ D0.sample_counter >= num_samples[0]
             /\ ~D0.read_wait
             /\ ~D0.read_req]_vars

\* the last sample is being delivered after the issue loop has completed:
\* busy must still be held
C7_Witness ==
    /\ D0.busy /\ D0.read_req /\ ~D0.read_wait
    /\ D0.sample_counter >= num_samples[0]
    /\ xfer.on /\ xfer.steady /\ xfer.n = 3 /\ xfer.t = 3

\* C9: a start sampled high on an edge where the DMA is active is ignored.
\* The DMA's registers after the edge are those of the same edge with start
\* low; base_addr is not latched (mem_addr and current_addr continue the
\* running stream), sample_counter is not restarted, and on the edge that
\* clears busy the DMA goes idle instead of beginning a transfer.
C9_StartIgnoredWhileActive ==
    [][(~rst /\ dma_starts[0] /\ D0.active) =>
          /\ dma'[0] = dma_seq_logic(D0, FALSE, FALSE, base_addrs[0], num_samples[0])
          /\ IF D0.sample_counter < num_samples[0]
             THEN /\ dma'[0].mem_addr = D0.current_addr
                  /\ dma'[0].current_addr = addr_wrap(D0.current_addr + 1)
                  /\ dma'[0].sample_counter = D0.sample_counter + 1
                  /\ dma'[0].active
             ELSE /\ dma'[0].mem_addr = D0.mem_addr
                  /\ dma'[0].current_addr = D0.current_addr
                  /\ dma'[0].sample_counter = D0.sample_counter
                  /\ ~dma'[0].read_wait
                  /\ dma'[0].active = (D0.read_wait \/ D0.read_req)]_vars

\* start was sampled high on the very edge at which the DMA cleared busy,
\* and the DMA is idle afterwards
C9_Witness ==
    /\ xfer.prev_start /\ xfer.prev_active
    /\ xfer.done /\ xfer.steady /\ xfer.n = 3
    /\ ~D0.active /\ ~D0.busy /\ ~D0.read_wait

(***************************************************************************)
(* Claims about the stagger scheduler (checked under SpecSched)            *)
(***************************************************************************)
\* the stagger sequence observed by the monitor has run to its end
RunFinished == ~run.on /\ run.t > 0

\* C5: stagger timing.  For a global start accepted by an idle scheduler,
\* with pulses[i] the cycles (counted from the accepting edge) on which core
\* i's start was high: no core has more than one such cycle, core i's cycle
\* is exactly i*hop after core 0's, a start is high only inside a sequence,
\* and by the end of the sequence every core has had its pulse.
C5_StaggerTiming ==
    /\ \A c \in Cores :
          /\ Len(run.pulses[c]) <= 1
          /\ Len(run.pulses[c]) = 1 =>
                /\ Len(run.pulses[0]) = 1
                /\ run.pulses[c][1] = run.pulses[0][1] + c * hop
          /\ dma_starts[c] => (run.on /\ run.pulses[c] = << run.t >>)
          /\ (run.on /\ run.t >= c * hop) => Len(run.pulses[c]) = 1
    /\ RunFinished => \A c \in Cores : Len(run.pulses[c]) = 1

\* a whole sequence with hop 3 has been observed: core 0 pulsed in cycle 0,
\* core 1 in cycle 3
C5_Witness ==
    /\ RunFinished
    /\ hop = 3
    /\ run.pulses = [c \in Cores |-> << 3 * c >>]
    /\ \A c \in Cores : ~dma_starts[c]

\* C10: a global start sampled while active_stagger is set is ignored.  The
\* scheduler's registers after the edge are those of the same edge with start
\* low: the counter advances by one instead of restarting, and core i's
\* start is high exactly if the counter was at i*hop.
C10_StartIgnoredWhileStaggering ==
    [][(~rst /\ start /\ active_stagger) =>
          /\ << active_stagger', stagger_counter', dma_starts' >> =
                LET s1 == control_logic(Sched, FALSE, FALSE, hop)
                IN  << s1.active_stagger, s1.stagger_counter, s1.dma_starts >>
          /\ stagger_counter' = stagger_counter + 1
          /\ \A c \in Cores : dma_starts'[c] = (stagger_counter = c * hop)]_vars

\* a start was sampled mid-sequence one edge before core 1's slot, and core
\* 1 still receives its single pulse on time
C10_Witness ==
    /\ run.prev_start /\ run.prev_active
    /\ hop = 2 /\ run.on /\ run.t = 2
    /\ run.pulses = [c \in Cores |-> << 2 * c >>]
    /\ dma_starts[1] /\ ~dma_starts[0]

(***************************************************************************)
(* Claims about the whole design (checked under SpecSys)                   *)
(***************************************************************************)
\* the N_SIZE samples stored from address base on
MemBlock(base) == [k \in 1 .. N_SIZE |-> RefUnpack(mem[base + k - 1])]

\* the run being observed began with every DMA idle and every pipeline
\* drained, and its configuration has been held since
CleanRun == sys.on /\ sys.clean /\ sys.steady

C11_ValidLatency ==
    ~rst =>
       /\ F0.outs.out_valid =
             (Len(strm.hist) = F0.latency_cycles /\ strm.hist[1])
       /\ strm.nout <= strm.nin
       /\ strm.nin - strm.nout =
             Cardinality({ i \in 1 .. Len(strm.hist) :
                             strm.hist[i] /\ (i > 1 \/ Len(strm.hist) < F0.latency_cycles) })
       /\ (~any_valid_in_pipe(F0)) => strm.nout = strm.nin

\* a 4-point pipeline was given 6 samples with a one-cycle gap among them
\* (a stream running past N, 11 enabled edges in all); the sixth is emerging
C11_Witness ==
    /\ ~rst /\ F0.N = 4
    /\ strm.nin = 6 /\ strm.nout = 6
    /\ strm.hist = << TRUE, FALSE, FALSE, FALSE, FALSE >>
    /\ F0.internal_cnt = 11
    /\ F0.outs.out_valid

\* C12: output indexing.  Absent reset, a valid output carries the
\* in-block position (samples_in_cnt) at which its sample was ingested; the
\* first valid output after a stage_sync or reset carries 0 and every later
\* one the previous valid output's index plus 1 modulo N, so a stream longer
\* than N wraps to 0 at sample N.
C12_OutputIndex ==
    (~rst /\ F0.outs.out_valid) =>
       /\ Len(strm.pos) = F0.latency_cycles
       /\ F0.outs.out_index = strm.pos[1]
       /\ F0.outs.out_index = (IF strm.prev = -1 THEN 0 ELSE (strm.prev + 1) % F0.N)

\* the fifth output of an unbroken stream into a 4-point pipeline: the index
\* has wrapped from 3 to 0
C12_Witness ==
    /\ ~rst /\ F0.N = 4 /\ F0.outs.out_valid
    /\ strm.prev = 3 /\ F0.outs.out_index = 0
    /\ strm.nout = 5
    /\ strm.hist = << TRUE, FALSE, FALSE, FALSE, FALSE >>

\* C13: while out_valid is false the FFT presents out_index = -1 and the
\* zero sample; while it is true the oldest valid_pipe entry is set,
\* out_index = out_cnt_reg lies in 0..N-1 and out_data is the final stage's
\* output register.
C13_OutputMasking ==
    IF F0.outs.out_valid
    THEN /\ F0.valid_pipe[F0.latency_cycles - 1]
         /\ F0.outs.out_index = F0.out_cnt_reg
         /\ F0.outs.out_index \in 0 .. F0.N - 1
         /\ F0.outs.out_data = F0.stages[F0.num_stages - 1].out_data
    ELSE /\ F0.outs.out_index = -1
         /\ F0.outs.out_data = [real |-> 0, imag |-> 0]

\* an invalid cycle in which out_cnt_reg and the final stage's register hold
\* values that must not be shown
C13_Witness ==
    /\ ~rst /\ ~F0.outs.out_valid
    /\ F0.out_cnt_reg = 1
    /\ F0.stages[F0.num_stages - 1].out_data # [real |-> 0, imag |-> 0]
    /\ F0.outs.out_index = -1

\* C14 as claimed: in_index is samples_in_cnt while the FFT is active and
\* -1 whenever it is idle (rst low, in_valid low, no sample in flight).
C14_InIndexIdle ==
    ~rst =>
       IF fft_in_valids[0] \/ any_valid_in_pipe(F0)
       THEN F0.outs.in_index = F0.samples_in_cnt
       ELSE F0.outs.in_index = -1

\* what the code provides: -1 under reset, samples_in_cnt otherwise
C14_InIndexCode ==
    F0.outs.in_index = (IF rst THEN -1 ELSE F0.samples_in_cnt)

(***************************************************************************)
(* Claims about the DMA's transfer length and unpacking (SpecDMA)          *)
(***************************************************************************)
\* C15 as claimed: the transfer length is latched when start is accepted,
\* so a transfer accepted with num_samples = n >= 1 delivers n fft_valid
\* pulses whatever num_samples does while the DMA is active.
C15_LengthLatched ==
    (xfer.done /\ xfer.n >= 1) => xfer.k = xfer.n

\* what the code provides: the length is latched only in the sense that a
\* transfer whose num_samples input is held delivers n pulses
C15_LengthHeld ==
    (xfer.done /\ xfer.n >= 1 /\ xfer.steady) => xfer.k = xfer.n

\* C16 as claimed: a start accepted with num_samples = 0 (and held) issues
\* no read and produces no fft_valid pulse.
C16_ZeroLength ==
    ((xfer.on \/ xfer.done) /\ xfer.steady /\ xfer.n = 0) =>
       /\ ~D0.read_wait
       /\ ~fft_in_valids[0]
       /\ xfer.k = 0

\* what the code provides: the accepting edge always issues the read of
\* base_addr, so a zero-length transfer delivers exactly one sample
C16_ZeroLengthCode ==
    (xfer.done /\ xfer.steady /\ xfer.n = 0) => (xfer.k = 1 /\ xfer.t = 3)

C18_Impulse ==
    (lin.on /\ lin.x = Impulse(lin.N)) =>
       /\ \A k \in 1 .. Len(lin.ox) :
             lin.ox[k] = [index |-> k - 1, data |-> [real |-> 1, imag |-> 0]]
       /\ Len(lin.ox) <= lin.N
       /\ LinDone => Len(lin.ox) = lin.N

\* the impulse, fed to the drained 4-point pipeline of an earlier block
\* (18 enabled edges in all), has produced its four outputs
C18_Witness ==
    /\ LinDone /\ lin.N = 4 /\ lin.runs = 2
    /\ lin.x = Impulse(4)
    /\ Len(lin.ox) = 4
    /\ lin.fx.internal_cnt = 18
    /\ lin.ox[4].data = [real |-> 1, imag |-> 0]

\* C19: DC response.  The block of N samples 1+0j fed to an empty pipeline
\* yields N valid outputs: the one with out_index 0 has value N and the
\* other N-1 are zero.
C19_DC ==
    (lin.on /\ lin.x = DCBlock(lin.N)) =>
       /\ \A k \in 1 .. Len(lin.ox) :
             lin.ox[k] = [index |-> k - 1,
                          data  |-> [real |-> (IF k = 1 THEN lin.N ELSE 0), imag |-> 0]]
       /\ Len(lin.ox) <= lin.N
       /\ LinDone => Len(lin.ox) = lin.N

\* the DC block, fed to the drained 4-point pipeline of an earlier block,
\* has produced 4, 0, 0, 0
C19_Witness ==
    /\ LinDone /\ lin.N = 4 /\ lin.runs = 2
    /\ lin.x = DCBlock(4)
    /\ Len(lin.ox) = 4
    /\ lin.ox[1].data = [real |-> 4, imag |-> 0]
    /\ lin.ox[4].data = [real |-> 0, imag |-> 0]

\* C20: linearity.  With the three pipelines fed x, y and a*x + b*y from
\* the same empty state, every output of the third carries the same
\* out_index as the corresponding outputs of the first two and the value
\* a*(output for x) + b*(output for y).
C20_Linearity ==
    lin.on =>
       /\ Len(lin.oz) = Len(lin.ox)
       /\ Len(lin.oz) = Len(lin.oy)
       /\ \A k \in 1 .. Len(lin.oz) :
             /\ lin.oz[k].index = lin.ox[k].index
             /\ lin.oz[k].index = lin.oy[k].index
             /\ lin.oz[k].data.real =
                   lin.a * lin.ox[k].data.real + lin.b * lin.oy[k].data.real
             /\ lin.oz[k].data.imag =
                   lin.a * lin.ox[k].data.imag + lin.b * lin.oy[k].data.imag
       /\ LinDone => Len(lin.oz) = lin.N

\* 2*x + 3*y over 4 points with x = [0,1,1,0] and a complex y: all four
\* outputs are out and the last is not zero
C20_Witness ==
    /\ LinDone /\ lin.N = 4 /\ lin.runs = 1
    /\ lin.a = 2 /\ lin.b = 3
    /\ lin.x = [i \in 1 .. 4 |-> [real |-> (IF i \in {2, 3} THEN 1 ELSE 0), imag |-> 0]]
    /\ lin.y[2] = [real |-> 0, imag |-> 1]
    /\ Len(lin.oz) = 4
    /\ lin.oz[4].data # [real |-> 0, imag |-> 0]
    /\ lin.ox[4].data # [real |-> 0, imag |-> 0]

(***************************************************************************)
(* Claims about the stages' phase and the sync pulse (SpecStream)          *)
(***************************************************************************)
\* the counter value Stage::process works with on the coming edge
EffCnt(f, i, v) ==
    IF stage_sync(f, v) THEN f.stages[i].init_offset ELSE f.stages[i].cnt

\* C24 as claimed: under any in_valid pattern, on every edge that ingests a
\* valid sample stage 0's effective counter equals samples_in_cnt.
C24_PhaseAligned ==
    (~rst /\ fft_in_valids[0]) => EffCnt(F0, 0, TRUE) = F0.samples_in_cnt

\* C25: stage_sync is high exactly when samples_in_cnt = 0, in_valid is high
\* and no valid_pipe entry is set.  Measured against the in_valid history:
\* it is high for a valid sample at a block boundary when no valid sample
\* was driven during the last latency_cycles edges (reset or drained
\* pipeline), and low for every valid sample that directly follows another,
\* so low for samples 2..N of a block and for a back-to-back next block.
C25_SyncPulse ==
    ~rst =>
       LET v == fft_in_valids[0]
           n == Len(strm.hist)
       IN  /\ stage_sync(F0, v) =
                 (/\ F0.samples_in_cnt = 0
                  /\ v
                  /\ \A i \in 0 .. F0.latency_cycles - 1 : ~F0.valid_pipe[i])
           /\ (v /\ strm.nin % F0.N = 0 /\ \A i \in 1 .. n : ~strm.hist[i])
                 => stage_sync(F0, v)
           /\ (v /\ n > 0 /\ strm.hist[n]) => ~stage_sync(F0, v)

\* the first sample of a back-to-back second block is about to be ingested
\* by a 4-point pipeline: samples_in_cnt is 0 again, yet sync stays low
C25_Witness ==
    /\ ~rst /\ F0.N = 4 /\ fft_in_valids[0]
    /\ strm.nin = 4 /\ F0.samples_in_cnt = 0
    /\ F0.valid_pipe[0] /\ F0.valid_pipe[3]
    /\ ~stage_sync(F0, TRUE)

\* the slot of its buffers a stage writes on an edge taken with counter c:
\* buf_in[c] in the first half, buf_out[c - delay_len] in the second
WrittenSlot(s, c) ==
    IF c < s.delay_len THEN [buf |-> "in", at |-> c]
    ELSE [buf |-> "out", at |-> c - s.delay_len]

\* stage t is stage s one enabled edge later without any re-initialisation:
\* the counter stepped from its own value and every buffer slot other than
\* the one written kept its contents
SteppedOn(s, t) ==
    /\ t.cnt = (s.cnt + 1) % s.N_stage
    /\ \A j \in 0 .. s.delay_len - 1 :
          /\ WrittenSlot(s, s.cnt) # [buf |-> "in", at |-> j]
                => t.buf_in[j] = s.buf_in[j]
          /\ WrittenSlot(s, s.cnt) # [buf |-> "out", at |-> j]
                => t.buf_out[j] = s.buf_out[j]

\* absent reset samples_in_cnt is the number of valid samples since the
\* reset modulo N, whatever gaps separated them; a drained pipeline holding
\* a leftover count keeps stage_sync low for the next valid sample
LeftoverKept ==
    ~rst =>
       /\ F0.samples_in_cnt = strm.nin % F0.N
       /\ (strm.nin % F0.N # 0 /\ ~any_valid_in_pipe(F0)) =>
             (F0.samples_in_cnt # 0 /\ ~stage_sync(F0, TRUE))

\* the first valid sample after a drained partial transfer is ingested
\* without re-initialising any stage
LeftoverStep ==
    (~rst /\ fft_in_valids[0] /\ ~any_valid_in_pipe(F0) /\ F0.samples_in_cnt # 0) =>
       \A i \in 0 .. F0.num_stages - 1 : SteppedOn(F0.stages[i], fft'[0].stages[i])

\* C26: after fewer than N valid samples have drained, samples_in_cnt stays
\* nonzero; the next transfer's first valid sample does not assert
\* stage_sync, no stage's counter or buffer is re-initialised, and the block
\* boundary stays offset by the leftover count until a reset.
C26_PartialBlockLeftover == [](LeftoverKept) /\ [][LeftoverStep]_vars

\* a 4-point pipeline took 2 samples, drained, and has now ingested a third
\* at position 2; stage 0 still holds the first transfer's samples
C26_Witness ==
    /\ ~rst /\ F0.N = 4
    /\ strm.nin = 3 /\ F0.samples_in_cnt = 3
    /\ F0.internal_cnt = 8
    /\ F0.valid_pipe[0] /\ \A i \in 1 .. 4 : ~F0.valid_pipe[i]
    /\ F0.stages[0].buf_in[0] # [real |-> 0, imag |-> 0]
    /\ F0.stages[0].buf_in[1] # [real |-> 0, imag |-> 0]

(***************************************************************************)
(* Claims about Stage::process (SpecStream)                                *)
(***************************************************************************)
\* the signal bound to stage i's in_data: the module input for stage 0, the
\* previous stage's output register otherwise
StageIn(f, i, d) == IF i = 0 THEN d ELSE f.stages[i - 1].out_data

\* stage s took an enabled edge with effective counter c, input x and buffer
\* contents bi, bo, and became t: the two-phase butterfly schedule
Butterfly(s, t, c, x, bi, bo) ==
    /\ t.cnt = (c + 1) % s.N_stage
    /\ IF c < s.N_stage \div 2
       THEN /\ t.buf_in[c] = x
            /\ t.out_data = bo[c]
       ELSE LET k == c - s.N_stage \div 2
                a == bi[k]
            IN  /\ t.out_data = [real |-> a.real + x.real, imag |-> a.imag + x.imag]
                /\ t.buf_out[k] =
                     RefRot([real |-> a.real - x.real, imag |-> a.imag - x.imag],
                            (4 \div s.N_stage) * k)

\* every stage's step across the coming enabled edge follows the schedule;
\* under sync the buffers it reads are the cleared ones
ButterflyStep ==
    LET v == fft_in_valids[0]
    IN  (~rst /\ internal_enable(F0, v)) =>
           \A i \in 0 .. F0.num_stages - 1 :
              LET s  == F0.stages[i]
                  z  == [j \in 0 .. s.N_stage \div 2 - 1 |-> [real |-> 0, imag |-> 0]]
                  sy == stage_sync(F0, v)
              IN  Butterfly(s, fft'[0].stages[i], EffCnt(F0, i, v),
                            StageIn(F0, i, fft_in_data[0]),
                            IF sy THEN z ELSE s.buf_in,
                            IF sy THEN z ELSE s.buf_out)

\* C27: on an enabled edge without reset, with effective counter c, a stage
\* in its first half (c < N_stage/2) stores the input in buf_in[c] and
\* outputs buf_out[c]; in its second half, with k = c - N_stage/2, it
\* outputs buf_in[k] + input and stores (buf_in[k] - input) * W(k, N_stage)
\* in buf_out[k]; cnt becomes (c + 1) mod N_stage.
C27_ButterflySchedule == [][ButterflyStep]_vars

\* stage 0 of a 4-point pipeline has finished a period: the counter wrapped
\* to 0 and buf_out[1] holds a difference turned by W(1,4) = -j
C27_Witness ==
    /\ ~rst /\ F0.N = 4
    /\ F0.internal_cnt = 4 /\ strm.nin = 4
    /\ F0.stages[0].cnt = 0
    /\ F0.stages[0].buf_in[1] = [real |-> 1, imag |-> 0]
    /\ F0.stages[0].buf_out[1] = [real |-> -1, imag |-> -1]
    /\ F0.stages[0].out_data = [real |-> 1, imag |-> 1]

\* the coming edge is an enabled edge with sync asserted: every stage comes
\* out of it as a freshly reset stage given the same input would
SyncStep ==
    (~rst /\ stage_sync(F0, fft_in_valids[0])) =>
       \A i \in 0 .. F0.num_stages - 1 :
          fft'[0].stages[i] =
             process_enabled(process_rst(F0.stages[i]), FALSE,
                             StageIn(F0, i, fft_in_data[0]))

\* C28: on an enabled edge with sync asserted a stage's post-edge cnt,
\* buffers and output are those of a freshly reset stage (cnt = init_offset,
\* buffers zero) processing the same input; nothing of the pre-edge cnt or
\* buffer contents survives.
C28_SyncIsFreshStart == [][SyncStep]_vars

\* a 4-point pipeline took a whole block, drained, and has ingested the
\* first sample of the next block under sync: stage 0 holds that sample
\* only, the earlier block's buf_in[1] and differences are gone
C28_Witness ==
    /\ ~rst /\ F0.N = 4
    /\ strm.nin = 5 /\ F0.internal_cnt = 10
    /\ F0.stages[0].cnt = 1
    /\ F0.stages[0].buf_in[0] # [real |-> 0, imag |-> 0]
    /\ F0.stages[0].buf_in[1] = [real |-> 0, imag |-> 0]
    /\ \A j \in 0 .. 1 : F0.stages[0].buf_out[j] = [real |-> 0, imag |-> 0]
    /\ F0.stages[1].cnt = 0

\* C30: in every reachable state each stage's cnt lies in [0, N_stage),
\* samples_in_cnt and out_cnt_reg lie in [0, N), and the buffer slot the
\* coming edge accesses, with or without sync, lies in [0, N_stage/2).
C30_CounterRanges ==
    /\ F0.samples_in_cnt \in 0 .. F0.N - 1
    /\ F0.out_cnt_reg \in 0 .. F0.N - 1
    /\ \A i \in 0 .. F0.num_stages - 1 :
          LET s == F0.stages[i]
          IN  /\ s.cnt \in 0 .. s.N_stage - 1
              /\ DOMAIN s.buf_in = 0 .. s.N_stage \div 2 - 1
              /\ DOMAIN s.buf_out = 0 .. s.N_stage \div 2 - 1
              /\ \A v \in BOOLEAN :
                    WrittenSlot(s, EffCnt(F0, i, v)).at \in 0 .. s.N_stage \div 2 - 1

\* samples_in_cnt, out_cnt_reg and stage 0's counter of a 4-point pipeline
\* at the top of their ranges: three samples of a block ingested, the
\* coming edge accesses the last slot of stage 0's buffers
C30_Witness ==
    /\ ~rst /\ F0.N = 4
    /\ F0.samples_in_cnt = 3
    /\ F0.out_cnt_reg = 3
    /\ F0.stages[0].cnt = 3
    /\ WrittenSlot(F0.stages[0], EffCnt(F0, 0, fft_in_valids[0])).at = 1
    /\ fft_in_valids[0]

(***************************************************************************)
(* fft.h : an FFT constructed for an arbitrary n_points and clocked with   *)
(* zero samples (the product of zero with any twiddle is zero, so the      *)
(* control path of every size is exact)                                    *)
(***************************************************************************)
\* values of n_points handed to the constructor
BuildSizes == 1 .. 8
\* no new valid sample is driven once internal_cnt has reached this
MaxBuildCycles == 12

\* Stage::process, second phase: k = c - delay_len indexes buf_in and
\* buf_out, vectors of delay_len elements, past their end
stage_oob(s, sync) ==
    LET c == IF sync THEN s.init_offset ELSE s.cnt
    IN  c >= s.delay_len /\ c - s.delay_len >= s.delay_len

\* some stage indexes past the end of its buffers on the coming enabled edge
build_oob(f, valid_in) ==
    \E i \in 0 .. f.num_stages - 1 : stage_oob(f.stages[i], stage_sync(f, valid_in))

InitBuild ==
    /\ rst \in BOOLEAN
    /\ hop = HOP_SIZE
    /\ \E n \in BuildSizes : Constructed(n)

\* one clock edge of the FFT, every buffer access within bounds; the
\* environment writes the next rst and in_valid, in_data stays zero
TickBuild ==
    LET f  == fft[0]
        v  == fft_in_valids[0]
        en == ~rst /\ internal_enable(f, v)
    IN  /\ ~build.fault
        /\ ~(en /\ build_oob(f, v))
        /\ \E nrst \in BOOLEAN, nv \in BOOLEAN :
             LET g == fft_cycle(f, rst, nrst, v, fft_in_data[0])
             IN  /\ nv => (~nrst /\ g.internal_cnt < MaxBuildCycles)
                 /\ fft' = [fft EXCEPT ![0] = g]
                 /\ build' = [ build EXCEPT !.since =
                                 IF rst THEN 0
                                 ELSE IF stage_sync(f, v) THEN 1
                                 ELSE IF en /\ build.since > 0 THEN build.since + 1
                                 ELSE build.since ]
                 /\ rst' = nrst
                 /\ fft_in_valids' = [fft_in_valids EXCEPT ![0] = nv]
                 /\ UNCHANGED << start, base_addrs, num_samples, schedVars,
                                 dma_starts, dmaVars, fft_in_data, monVars,
                                 strm, lin, memtb, twin, stag, tb_start >>

\* the coming enabled edge reads and writes a std::vector past its end: what
\* the program does from there is undefined and the model follows it no
\* further
BuildFault ==
    /\ ~build.fault
    /\ ~rst /\ internal_enable(fft[0], fft_in_valids[0])
    /\ build_oob(fft[0], fft_in_valids[0])
    /\ build' = [ build EXCEPT !.fault = TRUE ]
    /\ UNCHANGED << tbVars, schedVars, dma_starts, dmaVars, fftVars, monVars,
                    strm, lin, memtb, twin, stag, tb_start >>

NextBuild == TickBuild \/ BuildFault

SpecBuild == InitBuild /\ [][NextBuild]_vars

(***************************************************************************)
(* Claims about the constructor (SpecBuild)                                *)
(***************************************************************************)
\* n is a power of two
IsPow2(n) == \E e \in 0 .. 5 : n = 2 ^ e

\* C22 as claimed: an FFT whose n_points is not a power of two, or is below
\* 2, is rejected at construction, so no such pipeline ever exists.
C22_RejectsBadSize == IsPow2(F0.N) /\ F0.N >= 2

\* what the code provides: every n_points >= 1 is built, with floor(log2 N)
\* stages of sizes N >> i; a stage of odd size has fewer buffer slots than
\* its second phase indexes
C22_BuildsAnySize ==
    /\ F0.N \in BuildSizes
    /\ F0.num_stages = log2_int(F0.N)
    /\ \A i \in 0 .. F0.num_stages - 1 :
          /\ F0.stages[i].N_stage = F0.N \div 2 ^ i
          /\ (F0.stages[i].N_stage % 2 = 1) =>
                stage_oob([F0.stages[i] EXCEPT !.cnt = F0.stages[i].N_stage - 1], FALSE)
    /\ build.fault => ~(IsPow2(F0.N) /\ F0.N >= 2)

MemAddrs == {0, MEM_SIZE - 1, MEM_SIZE}
\* words the testbench writes
MemWords == { pack_complex(5, 2), pack_complex(0, 1) }

\* the word held at address a of memory m, none past the end
stored(m, a) == IF a < MEM_SIZE THEN m[a] ELSE {}

InitMem ==
    /\ rst \in BOOLEAN
    /\ hop = HOP_SIZE
    /\ Constructed(4)

\* one clock edge of the memory: Memory::write, Memory::read and
\* Memory::clear run on it, write and read in either order (both are
\* methods sensitive to clk.pos() and mem is a plain array); Memory::clear
\* runs again if the testbench then raises rst; the testbench writes the next
\* port signals
TickMem ==
    LET mw == mem_write(mem, rst, memtb.wrt_en, memtb.waddr, memtb.data_in)
    IN  \E read_sees \in {mem, mw} :
        \E nrst \in BOOLEAN, nwe \in BOOLEAN, nwa \in MemAddrs,
           ndi \in MemWords \cup {memtb.data_in}, nra \in MemAddrs :
          /\ IF nwe THEN ndi \in MemWords ELSE ndi = memtb.data_in
          /\ mem' = IF rst \/ nrst THEN mem_clear ELSE mw
          /\ mem_data' = [mem_data EXCEPT ![0] = mem_read(read_sees, rst, memtb.raddr)]
          /\ memtb' = [ wrt_en  |-> nwe,
                        waddr   |-> nwa,
                        data_in |-> ndi,
                        raddr   |-> nra,
                        seen    |-> TRUE,
                        r_addr  |-> memtb.raddr,
                        r_old   |-> stored(mem, memtb.raddr),
                        r_new   |-> stored(mw, memtb.raddr),
                        w_dropped |-> memtb.wrt_en /\ (rst \/ memtb.waddr >= MEM_SIZE) ]
          /\ rst' = nrst
          /\ UNCHANGED << start, base_addrs, num_samples, schedVars, dma_starts,
                          dma, fftVars, monVars, strm, lin, build, twin, stag, tb_start >>

NextMem == TickMem

SpecMem == InitMem /\ [][NextMem]_vars

(***************************************************************************)
(* Claims about the memory port (SpecMem)                                  *)
(***************************************************************************)
\* after an edge data_out holds the word stored at the address presented
\* before it (as it was before or after that edge's write), 0 past the end
ReadReturnsStored ==
    memtb.seen =>
       IF memtb.r_addr < MEM_SIZE
       THEN mem_data[0] \in {memtb.r_old, memtb.r_new}
       ELSE mem_data[0] = {}

\* an edge whose write is out of range or falls under reset changes no word
DroppedWriteStep ==
    (memtb.wrt_en /\ (rst \/ memtb.waddr >= MEM_SIZE) /\ ~rst') => mem' = mem

\* C23: a read returns, one clock cycle after the address is presented, the
\* word stored at that address, or 0 when the address is >= MEM_SIZE; a
\* write whose address is >= MEM_SIZE, or issued while rst is high, leaves
\* every memory word unchanged.
C23_MemoryPort == [](ReadReturnsStored) /\ [][DroppedWriteStep]_vars

\* the last edge dropped a write and read the last word of the memory,
\* which an earlier write had filled
C23_Witness ==
    /\ memtb.seen /\ memtb.w_dropped /\ ~rst
    /\ memtb.r_addr = MEM_SIZE - 1
    /\ mem_data[0] = pack_complex(5, 2)
    /\ mem[MEM_SIZE - 1] = pack_complex(5, 2)
    /\ mem[0] = pack_complex(0, 1)

(***************************************************************************)
(* tb_interleaved_fft.h : the whole design run twice on the same rst and   *)
(* start.  The second copy (twin.sys) differs from the first only in its   *)
(* other core's base_addr, num_samples and memory words.                   *)
(***************************************************************************)
\* no start is raised once an FFT's internal_cnt has passed this
MaxTwinCycles == 9

\* mutant: every DMA's num_samples port bound to core 0's signal
core_num_samples_first(ns, i) == ns[0]

\* InterleavedFFT::InterleavedFFT : the signal bound to DMA i's num_samples
core_num_samples(ns, i) == ns[i]

\* InterleavedFFT::InterleavedFFT : the signals bound to DMA i's base_addr,
\* num_samples and mem_data ports
core_base_addr(bases, i) == bases[i]
core_mem_data(md, i) == md[i]

\* the design's state as one record
System ==
    [ active_stagger  |-> active_stagger,
      stagger_counter |-> stagger_counter,
      dma_starts      |-> dma_starts,
      dma             |-> dma,
      mem             |-> mem,
      mem_data        |-> mem_data,
      fft_in_valids   |-> fft_in_valids,
      fft_in_data     |-> fft_in_data,
      fft             |-> fft,
      base_addrs      |-> base_addrs,
      num_samples     |-> num_samples ]

\* one clock edge of the whole design S: InterleavedFFT::control_logic,
\* every DMA, the memory's read ports and every FFT core take the edge and
\* the combinational methods settle; rst_n is the value rst takes after it
sys_step(S, rst_v, rst_n, start_v, h) ==
    LET s1  == control_logic([ active_stagger  |-> S.active_stagger,
                               stagger_counter |-> S.stagger_counter,
                               dma_starts      |-> S.dma_starts ],
                             rst_v, start_v, h)
        d1  == [c \in Cores |->
                  dma_seq_logic(S.dma[c], rst_v, S.dma_starts[c],
                                core_base_addr(S.base_addrs, c),
                                core_num_samples(S.num_samples, c))]
        md1 == [c \in Cores |-> mem_read(S.mem, rst_v, S.dma[c].mem_addr)]
    IN  [ S EXCEPT
            !.active_stagger  = s1.active_stagger,
            !.stagger_counter = s1.stagger_counter,
            !.dma_starts      = s1.dma_starts,
            !.dma             = d1,
            !.mem_data        = md1,
            !.mem             = IF rst_v \/ rst_n THEN mem_clear ELSE S.mem,
            !.fft_in_valids   = [c \in Cores |-> dma_fft_valid(d1[c])],
            !.fft_in_data     = [c \in Cores |->
                                   dma_fft_data(d1[c], core_mem_data(md1, c))],
            !.fft             = [c \in Cores |->
                                   fft_cycle(S.fft[c], rst_v, rst_n,
                                             S.fft_in_valids[c], S.fft_in_data[c])] ]

\* nothing is in flight in design S
sys_quiescent(S) ==
    /\ ~S.active_stagger
    /\ \A c \in Cores :
          /\ ~S.dma_starts[c]
          /\ ~S.dma[c].active
          /\ ~S.fft_in_valids[c]
          /\ ~any_valid_in_pipe(S.fft[c])

\* transfer lengths configured for the core under observation
TwinOwnLengths == {N_SIZE \div 2, N_SIZE}
\* (base_addr, num_samples) given to the other core, o, in the second copy
TwinOtherConfigs(o) ==
    { [base |-> N_SIZE * o, n |-> N_SIZE \div 2], [base |-> 2 * N_SIZE, n |-> N_SIZE] }

\* memory images: word i = i<<32 (tb_interleaved_fft.h) in the first copy;
\* in the second the words outside core j's block are different ones
TwinImage(j, second) ==
    [a \in 0 .. MEM_SIZE - 1 |->
        IF second /\ a \div N_SIZE # j THEN pack_complex(a + 5, 2 * a)
        ELSE pack_complex(a, 0)]

InitTwin ==
    /\ rst \in BOOLEAN
    /\ hop = HOP_SIZE
    /\ Constructed(N_SIZE)

\* Testbench::source_thread configures the cores: core j alike in both
\* copies, the other core with the full block in the first copy and some
\* other base_addr or num_samples in the second
TwinConfigure ==
    /\ ~twin.on
    /\ \E j \in Cores, n \in TwinOwnLengths :
       \E oc \in TwinOtherConfigs(1 - j) :
         LET bases == [c \in Cores |-> N_SIZE * c]
             lens  == [c \in Cores |-> IF c = j THEN n ELSE N_SIZE]
         IN  /\ base_addrs' = bases
             /\ num_samples' = lens
             /\ twin' = [ on  |-> TRUE,
                          j   |-> j,
                          sys |-> [ System EXCEPT
                                      !.base_addrs = [bases EXCEPT ![1 - j] = oc.base],
                                      !.num_samples = [lens EXCEPT ![1 - j] = oc.n] ] ]
    /\ UNCHANGED << rst, start, schedVars, dma_starts, dmaVars, fftVars, monVars,
                    strm, lin, build, memtb, stag, tb_start >>

\* Testbench::source_thread fills the memory of both copies once reset is
\* released and the designs are idle
TwinLoad ==
    /\ twin.on /\ ~rst
    /\ mem = mem_clear
    /\ sys_quiescent(System) /\ sys_quiescent(twin.sys)
    /\ mem' = TwinImage(twin.j, FALSE)
    /\ twin' = [ twin EXCEPT !.sys.mem = TwinImage(twin.j, TRUE) ]
    /\ UNCHANGED << tbVars, schedVars, dma_starts, dma, mem_data, fftVars, monVars,
                    strm, lin, build, memtb, stag, tb_start >>

\* one clock edge of both copies; the testbench writes the same next rst and
\* start to both
TickTwin ==
    /\ twin.on
    /\ LET A   == sys_step(System, rst, rst', start, hop)
           B   == sys_step(twin.sys, rst, rst', start, hop)
           may == \A c \in Cores : /\ fft[c].internal_cnt <= MaxTwinCycles
                                   /\ twin.sys.fft[c].internal_cnt <= MaxTwinCycles
       IN  /\ rst' \in BOOLEAN
           /\ start' \in BOOLEAN
           /\ start' => (may /\ ~rst')
           /\ active_stagger' = A.active_stagger
           /\ stagger_counter' = A.stagger_counter
           /\ dma_starts' = A.dma_starts
           /\ dma' = A.dma
           /\ mem_data' = A.mem_data
           /\ mem' = A.mem
           /\ fft_in_valids' = A.fft_in_valids
           /\ fft_in_data' = A.fft_in_data
           /\ fft' = A.fft
           /\ twin' = [ twin EXCEPT !.sys = B ]
    /\ UNCHANGED << base_addrs, num_samples, hop, monVars, strm, lin, build, memtb, stag, tb_start >>

NextTwin == TwinConfigure \/ TwinLoad \/ TickTwin

SpecTwin == InitTwin /\ [][NextTwin]_vars

(***************************************************************************)
(* Claims about the cores' independence (SpecTwin)                         *)
(***************************************************************************)
\* C21: core j's outputs (out_data, out_valid, out_index) and its memory
\* address stream are the same in two runs that differ only in the other
\* core's base_addr, num_samples or memory data; cores with different
\* num_samples finish at different times without affecting each other.
C21_CoreIndependence ==
    twin.on =>
       LET j == twin.j
           B == twin.sys
       IN  /\ fft[j].outs.out_data = B.fft[j].outs.out_data
           /\ fft[j].outs.out_valid = B.fft[j].outs.out_valid
           /\ fft[j].outs.out_index = B.fft[j].outs.out_index
           /\ dma[j].mem_addr = B.dma[j].mem_addr
           /\ dma[j].busy = B.dma[j].busy

\* core 1 presents a valid nonzero output, the same in both copies, while
\* core 0 runs a 4-sample transfer in the first copy and has already
\* finished its 2-sample transfer in the second
C21_Witness ==
    /\ twin.on /\ twin.j = 1
    /\ fft[1].outs.out_valid
    /\ fft[1].outs.out_data # [real |-> 0, imag |-> 0]
    /\ num_samples[0] # twin.sys.num_samples[0]
    /\ fft[0] # twin.sys.fft[0]
    /\ fft[0].samples_in_cnt = 0 /\ twin.sys.fft[0].samples_in_cnt = 2
    /\ ~twin.sys.dma[0].busy

(***************************************************************************)
(* Claims about the disabled pipeline and the status output (SpecStream)   *)
(***************************************************************************)
\* the registers the disabled pipeline holds: every stage's cnt, buffers and
\* out_data, and the FFT's internal_cnt, samples_in_cnt, out_cnt_reg and
\* valid_pipe
Frozen(f, g) ==
    /\ \A i \in DOMAIN f.stages :
          /\ g.stages[i].cnt = f.stages[i].cnt
          /\ g.stages[i].buf_in = f.stages[i].buf_in
          /\ g.stages[i].buf_out = f.stages[i].buf_out
          /\ g.stages[i].out_data = f.stages[i].out_data
    /\ g.internal_cnt = f.internal_cnt
    /\ g.samples_in_cnt = f.samples_in_cnt
    /\ g.out_cnt_reg = f.out_cnt_reg
    /\ g.valid_pipe = f.valid_pipe

FreezeStep ==
    (~rst /\ ~fft_in_valids[0] /\ ~any_valid_in_pipe(F0)) => Frozen(F0, fft'[0])

C32_StatusCurrent ==
    ~rst => (F0.outs.status = (internal_enable(F0, fft_in_valids[0]) \/ F0.flushing))

NumCores == 1 .. 3

InitStagger ==
    /\ rst \in BOOLEAN
    /\ hop \in HopSizes
    /\ \E nc \in NumCores : ConstructedCores(4, nc)

\* the sequence monitor across one clock edge: s1 the scheduler after it.  t
\* counts the edges since the accepting edge, pulsed collects the cores whose
\* start has been written high
stag_next(s1) ==
    LET high == {c \in DOMAIN s1.dma_starts : s1.dma_starts[c]}
    IN  IF rst THEN stag_idle
        ELSE IF sched_accept(active_stagger, start)
        THEN [ stag_idle EXCEPT !.on = s1.active_stagger, !.pulsed = high ]
        ELSE IF stag.on
        THEN [ stag EXCEPT !.on = s1.active_stagger, !.t = stag.t + 1,
                           !.pulsed = stag.pulsed \cup high ]
        ELSE stag

\* one clock edge of InterleavedFFT::control_logic; the environment writes
\* the next start and rst
TickStagger ==
    LET s1 == control_logic(Sched, rst, start, hop)
    IN  \E nrst \in BOOLEAN, nst \in BOOLEAN :
          /\ active_stagger' = s1.active_stagger
          /\ stagger_counter' = s1.stagger_counter
          /\ dma_starts' = s1.dma_starts
          /\ stag' = stag_next(s1)
          /\ rst' = nrst
          /\ start' = nst
          /\ UNCHANGED << base_addrs, num_samples, hop, dmaVars, fftVars,
                          monVars, strm, lin, build, memtb, twin, tb_start >>

NextStagger == TickStagger

\* the clock never stops: an edge is always taken
SpecStagger == InitStagger /\ [][NextStagger]_vars /\ WF_vars(NextStagger)

(***************************************************************************)
(* Claims about the scheduler's termination (SpecStagger)                  *)
(***************************************************************************)
\* the scheduler's num_cores
StaggerCores == DOMAIN dma_starts
StaggerLimit == Cardinality(StaggerCores) * hop + 2

\* while a sequence runs the counter is one ahead of the edges taken and has
\* not passed the limit; a sequence that has ended took exactly limit + 1
\* edges after its accepting edge, left the scheduler Idle until the next
\* accepted start, and pulsed every core
StaggerBound ==
    /\ stag.on => /\ active_stagger
                  /\ stagger_counter = stag.t + 1
                  /\ stag.t <= StaggerLimit
    /\ (~stag.on /\ stag.t > 0) => /\ ~active_stagger
                                   /\ stag.t = StaggerLimit + 1
                                   /\ stag.pulsed = StaggerCores

\* absent reset every edge of a sequence advances it, and active_stagger is
\* cleared by exactly the edges that find a counter value above the limit
StaggerAdvance ==
    (~rst /\ active_stagger) =>
       /\ stag'.t = stag.t + 1
       /\ stagger_counter' = stagger_counter + 1
       /\ active_stagger' = ~(stagger_counter > StaggerLimit)

\* C34: absent reset every accepted global start leads back to Idle after a
\* bounded number of edges, active_stagger being cleared on the first edge
\* whose counter value exceeds NUM_CORES * HOP_SIZE + 2, and by then every
\* core has received its start pulse, for every NUM_CORES >= 1 and
\* HOP_SIZE >= 0.
C34_StaggerTerminates ==
    /\ [](StaggerBound)
    /\ [][StaggerAdvance]_vars
    /\ (stag.on ~> ~stag.on)

\* a sequence of a three-core scheduler with hop 3 has ended, 12 edges after
\* its accepting edge, with all three cores pulsed
C34_Witness ==
    /\ Cardinality(StaggerCores) = 3 /\ hop = 3
    /\ ~stag.on /\ stag.t = 12 /\ ~active_stagger
    /\ stag.pulsed = {0, 1, 2}

(***************************************************************************)
(* interleaved_fft.h : the scheduler and the cores' DMAs clocked together, *)
(* with transfers that may outlive the stagger sequence                    *)
(***************************************************************************)
\* tb_interleaved_fft.h, TEST 7: num_samples of the continuous stream
StreamLength == 10

\* num_samples a core is configured with: half a block (TEST 6) or a stream
\* longer than the stagger sequence (TEST 7)
OverrunLengths == {N_SIZE \div 2, StreamLength}

InitOverrun ==
    /\ rst \in BOOLEAN
    /\ hop = HOP_SIZE
    /\ Constructed(N_SIZE)

\* neither the scheduler nor any DMA has anything in progress
OverrunIdle ==
    /\ ~active_stagger
    /\ \A c \in Cores : ~dma_starts[c] /\ ~dma[c].active

\* Testbench::source_thread writes base_addr = i * N and a num_samples to
\* every core, between runs
OverrunConfigure ==
    /\ ~rst /\ ~start /\ OverrunIdle
    /\ \E lens \in [Cores -> OverrunLengths] :
          /\ lens # num_samples
          /\ num_samples' = lens
    /\ base_addrs' = [c \in Cores |-> N_SIZE * c]
    /\ stag' = stag_idle
    /\ UNCHANGED << rst, start, schedVars, dma_starts, dmaVars, fftVars, monVars,
                    strm, lin, build, memtb, twin, tb_start >>

\* Testbench::source_thread fills the memory, word i = i<<32, once reset is
\* released and the design is idle
OverrunLoad ==
    /\ ~rst /\ ~start /\ OverrunIdle
    /\ mem = mem_clear
    /\ mem' = [a \in 0 .. MEM_SIZE - 1 |-> pack_complex(a, 0)]
    /\ UNCHANGED << tbVars, schedVars, dma_starts, dma, mem_data, fftVars, monVars,
                    obsVars >>

\* the sequence monitor across one clock edge: s1 the scheduler after it.
\* begun collects the cores whose DMA accepted the start it sampled, dropped
\* the cores whose DMA sampled its start while active
overrun_next(s1) ==
    LET m       == stag_next(s1)
        sampled == {c \in Cores : dma_starts[c]}
        taken   == {c \in sampled : dma_accept(dma[c], TRUE)}
    IN  IF rst \/ ~(m.on \/ stag.on) THEN m
        ELSE [ m EXCEPT !.begun   = (IF m.t = 0 THEN {} ELSE stag.begun) \cup taken,
                        !.dropped = (IF m.t = 0 THEN {} ELSE stag.dropped)
                                       \cup (sampled \ taken) ]

\* one clock edge of the scheduler, every DMA and the memory's read ports;
\* the environment writes the next start and rst
TickOverrun ==
    LET s1  == control_logic(Sched, rst, start, hop)
        d1  == [c \in Cores |->
                  dma_seq_logic(dma[c], rst, dma_starts[c],
                                core_base_addr(base_addrs, c),
                                core_num_samples(num_samples, c))]
        md1 == [c \in Cores |-> mem_read(mem, rst, dma[c].mem_addr)]
    IN  \E nrst \in BOOLEAN, nst \in BOOLEAN :
          /\ active_stagger' = s1.active_stagger
          /\ stagger_counter' = s1.stagger_counter
          /\ dma_starts' = s1.dma_starts
          /\ dma' = d1
          /\ mem_data' = md1
          /\ mem' = IF rst \/ nrst THEN mem_clear ELSE mem
          /\ fft_in_valids' = [c \in Cores |-> dma_fft_valid(d1[c])]
          /\ fft_in_data' = [c \in Cores |->
                               dma_fft_data(d1[c], core_mem_data(md1, c))]
          /\ stag' = overrun_next(s1)
          /\ rst' = nrst
          /\ start' = nst
          /\ UNCHANGED << base_addrs, num_samples, hop, fft, monVars,
                          strm, lin, build, memtb, twin, tb_start >>

NextOverrun == OverrunConfigure \/ OverrunLoad \/ TickOverrun

SpecOverrun == InitOverrun /\ [][NextOverrun]_vars

(***************************************************************************)
(* Claims about start pulses that meet a running transfer (SpecOverrun)    *)
(***************************************************************************)
\* a pulse sampled by an active DMA changes nothing: the DMA's registers and
\* the signals it drives are those of the same edge with start low, and the
\* scheduler's registers do not depend on the DMA; a pulse sampled by an idle
\* DMA begins a transfer
DroppedPulseStep ==
    \A c \in Cores :
       (~rst /\ dma_starts[c]) =>
          IF dma[c].active
          THEN LET quiet == dma_seq_logic(dma[c], FALSE, FALSE,
                                          base_addrs[c], num_samples[c])
               IN  /\ dma'[c] = quiet
                   /\ fft_in_valids'[c] = quiet.read_req
                   /\ dma'[c].sample_counter >= dma[c].sample_counter
                   /\ c \in stag'.dropped /\ c \notin stag'.begun
          ELSE /\ dma'[c].active /\ dma'[c].busy
               /\ dma'[c].sample_counter = 1
               /\ dma'[c].mem_addr = addr_wrap(base_addrs[c])
               /\ c \in stag'.begun /\ c \notin stag'.dropped

\* pulses occur only inside a sequence; within one sequence no core both
\* drops its pulse and begins a transfer, and when the sequence has ended
\* every core has done one or the other
DroppedPulseTally ==
    /\ \A c \in Cores : dma_starts[c] => stag.on
    /\ stag.begun \cap stag.dropped = {}
    /\ (~stag.on /\ stag.t > 0) => stag.begun \cup stag.dropped = Cores

\* C35: if core i's DMA is still active on the edge that samples its stagger
\* start pulse, the pulse is dropped: core i performs no transfer for that
\* global start while idle cores do start, and no signal reports the
\* omission.
C35_PulseDroppedWhileActive ==
    [](DroppedPulseTally) /\ [][DroppedPulseStep]_vars

\* a sequence has ended in which core 0, still streaming its 10 samples from
\* the previous start, dropped its pulse while core 1, configured with 2
\* samples and idle, began a transfer
C35_Witness ==
    /\ ~stag.on /\ stag.t > 0
    /\ stag.dropped = {0} /\ stag.begun = {1}
    /\ num_samples[0] = StreamLength /\ num_samples[1] = N_SIZE \div 2
    /\ dma[0].busy

(***************************************************************************)
(* tb_dma.cpp : a DMA whose base_addr and num_samples are written only     *)
(* while it is idle, under a clock that never stops                        *)
(***************************************************************************)
ClockLengths == 0 .. 4

\* Testbench::stimuli writes base_addr and num_samples before it raises start
ClockConfigure ==
    /\ ~rst /\ ~dma_starts[0] /\ ~D0.active
    /\ \E b \in BaseAddrs, n \in ClockLengths :
          /\ << b, n >> # << base_addrs[0], num_samples[0] >>
          /\ base_addrs' = [base_addrs EXCEPT ![0] = b]
          /\ num_samples' = [num_samples EXCEPT ![0] = n]
    /\ UNCHANGED << rst, start, schedVars, dma_starts, dmaVars, fftVars, monVars,
                    obsVars >>

\* one clock edge of the DMA testbench; the testbench writes the next start
\* and rst
TickDMAClock ==
    LET d   == dma[0]
        d1  == dma_seq_logic(d, rst, dma_starts[0], base_addrs[0], num_samples[0])
        md1 == mem_read(mem, rst, d.mem_addr)
    IN  \E nrst \in BOOLEAN, nst \in BOOLEAN :
          /\ dma' = [dma EXCEPT ![0] = d1]
          /\ mem_data' = [mem_data EXCEPT ![0] = md1]
          /\ mem' = IF rst \/ nrst THEN mem_clear ELSE mem
          /\ fft_in_valids' = [fft_in_valids EXCEPT ![0] = dma_fft_valid(d1)]
          /\ fft_in_data' = [fft_in_data EXCEPT ![0] = dma_fft_data(d1, md1)]
          /\ xfer' = xfer_next(d, d1, dma_starts[0], base_addrs[0],
                               num_samples[0], rst \/ nrst)
          /\ rst' = nrst
          /\ dma_starts' = [dma_starts EXCEPT ![0] = nst]
          /\ UNCHANGED << start, base_addrs, num_samples, schedVars, fft, fed,
                          got, since, run, sys, obsVars >>

NextDMAClock == ClockConfigure \/ Preload \/ TickDMAClock

\* the clock never stops: an edge is always taken
SpecDMAClock == InitDMA /\ [][NextDMAClock]_vars /\ WF_vars(TickDMAClock)

(***************************************************************************)
(* Claims about the DMA's timing, start sampling and addresses             *)
(***************************************************************************)
Min(a, b) == IF a < b THEN a ELSE b

\* t edges after the accepting edge of a transfer of n >= 1 samples: the DMA
\* is busy and active for t <= n + 1, has issued Min(t + 1, n) addresses,
\* the newest at edge Min(t, n - 1); at t = n + 2 busy and active are clear
TransferClock ==
    /\ (xfer.on /\ xfer.steady /\ xfer.n >= 1) =>
          /\ D0.busy /\ D0.active
          /\ xfer.t <= xfer.n + 1
          /\ D0.sample_counter = Min(xfer.t + 1, xfer.n)
          /\ D0.mem_addr = addr_wrap(xfer.base + Min(xfer.t, xfer.n - 1))
    /\ (xfer.done /\ xfer.steady /\ xfer.n >= 1) =>
          /\ ~D0.busy /\ ~D0.active
          /\ xfer.t = xfer.n + 2

\* absent reset, with num_samples held, every edge of a transfer is counted,
\* and a new address is issued by exactly the edges up to the (n - 1)-th
TransferStep ==
    (xfer.on /\ xfer.steady /\ xfer.n >= 1 /\ xfer'.steady /\ (xfer'.on \/ xfer'.done)) =>
       /\ xfer'.t = xfer.t + 1
       /\ (dma'[0].mem_addr # D0.mem_addr) => xfer'.t <= xfer.n - 1
       /\ (xfer'.t <= xfer.n - 1) =>
             dma'[0].mem_addr = addr_wrap(D0.mem_addr + 1)

\* C36: with num_samples = n >= 1 held constant and no reset, a DMA that
\* accepts start at edge e issues its last address at edge e + n - 1 and
\* clears busy and active at edge e + n + 2, neither earlier nor later; it
\* therefore always returns to idle.
C36_DmaTerminates ==
    /\ [](TransferClock)
    /\ [][TransferStep]_vars
    /\ (D0.busy ~> ~D0.busy)

\* a 3-sample transfer has just gone idle, 5 edges after its accepting edge,
\* its last address base + 2 still on the address bus
C36_Witness ==
    /\ xfer.done /\ xfer.steady /\ xfer.n = 3 /\ xfer.t = 5
    /\ ~D0.busy /\ ~D0.active
    /\ D0.mem_addr = addr_wrap(xfer.base + 2)

(***************************************************************************)
(* A DMA driven by a testbench (tb_dma.cpp) and an InterleavedFFT's        *)
(* scheduler, clocked and reset together, each with its own start          *)
(***************************************************************************)
LevelBases == {1, 14}
LevelLengths == {1, 3}

InitLevel ==
    /\ rst \in BOOLEAN
    /\ hop = HOP_SIZE
    /\ Constructed(N_SIZE)

\* one clock edge: DMA::seq_logic, Memory::read and
\* InterleavedFFT::control_logic take the edge, DMA::comb_logic settles, and
\* the testbenches write the next rst and the two starts, and a new
\* base_addr and num_samples only together with a start
TickLevel ==
    LET d   == dma[0]
        d1  == dma_seq_logic(d, rst, tb_start, base_addrs[0], num_samples[0])
        md1 == mem_read(mem, rst, d.mem_addr)
        s1  == control_logic(Sched, rst, start, hop)
    IN  \E nrst \in BOOLEAN, nst \in BOOLEAN, ngl \in BOOLEAN,
           nb \in LevelBases, nn \in LevelLengths :
          /\ dma' = [dma EXCEPT ![0] = d1]
          /\ mem_data' = [mem_data EXCEPT ![0] = md1]
          /\ mem' = IF rst \/ nrst THEN mem_clear ELSE mem
          /\ fft_in_valids' = [fft_in_valids EXCEPT ![0] = dma_fft_valid(d1)]
          /\ fft_in_data' = [fft_in_data EXCEPT ![0] = dma_fft_data(d1, md1)]
          /\ xfer' = xfer_next(d, d1, tb_start, base_addrs[0],
                               num_samples[0], rst \/ nrst)
          /\ active_stagger' = s1.active_stagger
          /\ stagger_counter' = s1.stagger_counter
          /\ dma_starts' = s1.dma_starts
          /\ run' = run_next(s1)
          /\ rst' = nrst
          /\ tb_start' = nst
          /\ start' = ngl
          /\ (nb # base_addrs[0] \/ nn # num_samples[0]) => (nst /\ ~nrst)
          /\ base_addrs' = [base_addrs EXCEPT ![0] = nb]
          /\ num_samples' = [num_samples EXCEPT ![0] = nn]
          /\ UNCHANGED << hop, fft, fed, got, since, sys, strm, lin, build,
                          memtb, twin, stag >>

NextLevel == TickLevel

SpecLevel == InitLevel /\ [][NextLevel]_vars

(***************************************************************************)
(* Claims about start sampling and reset (SpecLevel)                       *)
(***************************************************************************)
\* the DMA's start has been high since before the edge that cleared active:
\* the next edge begins a transfer from the base_addr on the port now
DmaLevelStep ==
    (~rst /\ tb_start /\ xfer.prev_start /\ xfer.prev_active /\ ~D0.active) =>
       /\ dma'[0].active /\ dma'[0].busy
       /\ dma'[0].mem_addr = addr_wrap(base_addrs[0])
       /\ dma'[0].current_addr = addr_wrap(base_addrs[0] + 1)
       /\ dma'[0].sample_counter = 1
       /\ (~rst' => (xfer'.on /\ xfer'.t = 0 /\ xfer'.base = base_addrs[0]
                     /\ xfer'.n = num_samples[0]))

\* the global start has been high since before the edge that cleared
\* active_stagger: the next edge begins a stagger sequence
SchedLevelStep ==
    (~rst /\ start /\ run.prev_start /\ run.prev_active /\ ~active_stagger) =>
       /\ active_stagger'
       /\ stagger_counter' = 1
       /\ \A c \in Cores : dma_starts'[c] = (c * hop = 0)
       /\ run'.on /\ run'.t = 0

\* C37: start inputs are level-sampled, not edge-detected: if the DMA's start
\* is still high on the first edge after it has returned to idle a new
\* transfer begins on that edge with the then-current base_addr and
\* num_samples, and a global start still high when the scheduler has
\* returned to Idle begins a new stagger sequence.
C37_LevelSampledStart == [][DmaLevelStep /\ SchedLevelStep]_vars

\* the DMA has just gone idle after a 3-sample transfer from base 1 with
\* its start held high since before that edge and base_addr now 14, and the
\* scheduler has just returned to Idle with the global start held high
C37_Witness ==
    /\ ~rst
    /\ tb_start /\ xfer.prev_start /\ xfer.prev_active /\ ~D0.active
    /\ xfer.done /\ xfer.base = 1 /\ xfer.n = 3 /\ base_addrs[0] = 14
    /\ start /\ run.prev_start /\ run.prev_active /\ ~active_stagger
    /\ RunFinished

\* an edge taken with rst asserted leaves the DMA and the scheduler in their
\* reset state
ResetStep ==
    rst =>
       /\ ~dma'[0].busy /\ ~dma'[0].active
       /\ ~dma'[0].read_req /\ ~dma'[0].read_wait
       /\ dma'[0].sample_counter = 0
       /\ dma'[0].current_addr = 0
       /\ dma'[0].mem_addr = 0
       /\ ~fft_in_valids'[0]
       /\ ~active_stagger'
       /\ stagger_counter' = 0
       /\ \A c \in Cores : ~dma_starts'[c]

\* C38: after any clock edge with rst asserted, regardless of prior state
\* (mid-transfer or mid-stagger), the DMA has busy, active, read_req and
\* read_wait false, sample_counter, current_addr and mem_addr equal to 0 and
\* fft_valid low, and the scheduler has active_stagger false, stagger_counter
\* 0 and every core's start pulse low.
C38_ResetDmaAndScheduler == [][ResetStep]_vars

\* rst is asserted while the DMA delivers the second sample of a transfer
\* from base 14 and the scheduler, mid-sequence, holds core 1's pulse high
C38_Witness ==
    /\ rst
    /\ D0.active /\ D0.busy /\ D0.read_req /\ D0.read_wait
    /\ D0.sample_counter = 3 /\ D0.mem_addr = 0 /\ D0.current_addr = 1
    /\ fft_in_valids[0]
    /\ active_stagger /\ stagger_counter = 2 /\ dma_starts[1]

\* the address on the bus t edges after the accepting edge is the
\* (t + 1)-th of the transfer, base_addr + t reduced to ADDR_WIDTH bits,
\* until all n have been issued; the last one stays on the bus afterwards;
\* the transfer then completes as any other, all n samples delivered
AddressOfCycle ==
    /\ D0.mem_addr \in 0 .. 2 ^ ADDR_WIDTH - 1
    /\ D0.current_addr \in 0 .. 2 ^ ADDR_WIDTH - 1
    /\ (xfer.on /\ xfer.steady /\ xfer.n >= 1) =>
          /\ xfer.t <= xfer.n - 1 =>
                /\ D0.mem_addr = (xfer.base + xfer.t) % (2 ^ ADDR_WIDTH)
                /\ D0.sample_counter = xfer.t + 1
          /\ xfer.t >= xfer.n =>
                /\ D0.mem_addr = (xfer.base + xfer.n - 1) % (2 ^ ADDR_WIDTH)
                /\ D0.sample_counter = xfer.n
    /\ (xfer.done /\ xfer.steady /\ xfer.n >= 1) =>
          /\ D0.mem_addr = (xfer.base + xfer.n - 1) % (2 ^ ADDR_WIDTH)
          /\ xfer.k = xfer.n
          /\ ~D0.busy /\ ~D0.active /\ ~D0.read_req /\ ~D0.read_wait

\* while addresses are being issued every edge puts the successor, modulo
\* 2^ADDR_WIDTH, of the previous address on the bus
AddressStep ==
    (~rst /\ D0.active /\ D0.sample_counter < num_samples[0]) =>
       /\ dma'[0].mem_addr = (D0.mem_addr + 1) % (2 ^ ADDR_WIDTH)
       /\ dma'[0].sample_counter = D0.sample_counter + 1

\* C39: the k-th address issued in a transfer is (base_addr + k) mod
\* 2^ADDR_WIDTH for k = 0 .. num_samples - 1, one new address per cycle, and
\* a transfer whose base_addr + num_samples exceeds the address space still
\* issues all num_samples addresses and completes without any error state.
C39_AddressWrap == [](AddressOfCycle) /\ [][AddressStep]_vars

\* a 4-sample transfer from base 14 has completed: its addresses were 14, 15,
\* 0 and 1, the last still on the bus, and all 4 samples were delivered
C39_Witness ==
    /\ xfer.done /\ xfer.steady /\ xfer.base = 14 /\ xfer.n = 4
    /\ xfer.k = 4 /\ xfer.t = 6
    /\ D0.mem_addr = 1 /\ D0.current_addr = 2
    /\ ~D0.busy

=============================================================================
